---- MODULE Spec2Model ----
(***************************************************************************)
(* Model of the bitscan Twitch bot library (src/twitchbot.py).             *)
(*                                                                         *)
(* Spec      : the timer subsystem.  One host thread calls the TwitchBot   *)
(*             timer API; every _BotTimers object has its own scheduler    *)
(*             thread running _BotTimers.__loop.  Statements that touch    *)
(*             shared state are separate steps, so the interleavings of    *)
(*             the two threads are the ones the interpreter can produce.   *)
(* SpecShort : Spec with a shorter sequence of API calls.                  *)
(* SpecReg   : addTimer alone, with every kind of argument list.           *)
(* SpecIrc   : TwitchBot.incoming() on received texts, the text handled    *)
(*             character by character.                                     *)
(* SpecStart : TwitchBot.start(): the lookup of the chat server, the        *)
(*             connect and the handshake, one network operation a step.    *)
(* SpecParse : _IRCMessage and _IRCTag on their own, each constructed once  *)
(*             on a text drawn from a set of texts.                        *)
(* SpecUser  : the user variables: declare lines and the six accessors.    *)
(* SpecTimer : one _Timer on its own: setup, then check() at chosen         *)
(*             instants of the clock.                                      *)
(* SpecMode  : incoming() on MODE lines.                                    *)
(* SpecRoom  : incoming() on ROOMSTATE and NOTICE lines.                    *)
(* SpecCb    : timers whose callbacks call a locked operation of the bot.   *)
(* SpecQuit  : the driver of src/run.py and the scan thread of              *)
(*             src/bitscan.py: the message loop and its shutdown, with     *)
(*             weak fairness of both threads.                              *)
(***************************************************************************)
EXTENDS Integers, Sequences, FiniteSets, TLC

VARIABLES
    now,            \* datetime.datetime.now(), in seconds
    timercode,      \* TwitchBot.__timercode
    timers,         \* TwitchBot.__timers: NoSched (None) or a _BotTimers object
    nSched,         \* number of _BotTimers objects constructed so far
    sched,          \* the _BotTimers objects and their scheduler threads
    hpc,            \* host thread: position inside the API call in progress
    hentry,         \* host thread: addTimer's local t_entry
    htmp,           \* host thread: value loaded by  self.__timercode += 1
    harg,           \* host thread: the code argument of removeTimer/pauseTimer/resumeTimer
    hcall,          \* host thread: the arguments of the last addTimer call
    hres,           \* host thread: how the last API call ended
    codesReturned,  \* history: the codes returned by addTimer, in order of return
    removedRet,     \* history: codes c of registered entries for which removeTimer(c) returned
    killedRet,      \* history: the objects on which killTimers() returned
    fired,          \* history: the entry whose callback the last step invoked
    callsLeft,      \* the number of API calls the host thread has yet to make
    userlist,       \* TwitchBot.userlist
    modlist,        \* TwitchBot.modlist
    room,           \* TwitchBot room states (subs_on, slow_on, ...)
    ipc,            \* incoming(): position inside the call in progress
    batch,          \* incoming(): what __getText() returned to the call
    text,           \* incoming(): the local text
    lines,          \* incoming(): the lines the for loop has yet to take
    message,        \* incoming(): the local message, which the call returns
    trace,          \* history: what the incoming() call in progress did, in order
    ires,           \* how the last incoming() call ended
    conf,           \* TwitchBot.username, .channel, .password and .server
    spc,            \* start(): position inside the call in progress
    lookup,         \* start(): what the lookup of the chat server met
    netlog,         \* history: the network operations of the last start() call
    sres,           \* how the last start() call ended
    startsLeft,     \* the number of start() calls yet to be made
    pfun,           \* the parser applied last: "_IRCMessage", "_IRCTag" or "none"
    parg,           \* the text it was applied to
    pres,           \* the object it constructed, or the exception it ended with
    variables,      \* TwitchBot.__variables: name -> [value, type]
    vop,            \* the last call on the user variables, and how it ended
    tm,             \* a _Timer on its own: NoTimer until it is constructed
    tchk,           \* the last check() of tm: the instant, the result, time_d before
    on,             \* run.py: state.on
    ack,            \* run.py: state.ack
    mainpc,         \* run.py: position of the driver inside the loop of main
    scanpc,         \* bitscan.py: position of the scan thread inside scan
    chat,           \* the socket TwitchBot.__chat: "open", "shut" or "closed"
    bit_info,       \* scan's local bit_info
    bitdata,        \* the content of the file bit.data
    config          \* scan's local config: the value of equal_max_override

timerVars == <<now, timercode, timers, nSched, sched, hpc, hentry, htmp, harg,
               hcall, hres, codesReturned, removedRet, killedRet, fired, callsLeft>>
ircVars   == <<userlist, modlist, room, ipc, batch, text, lines, message,
               trace, ires>>
startVars == <<conf, spc, lookup, netlog, sres, startsLeft>>
parseVars == <<pfun, parg, pres>>
userVars  == <<variables, vop>>
tmVars    == <<tm, tchk>>
runVars   == <<on, ack, mainpc, scanpc, chat, bit_info, bitdata, config>>
apiVars   == <<startVars, parseVars, userVars, tmVars, runVars>>
vars      == <<timerVars, ircVars, apiVars>>

----------------------------------------------------------------------------
(* Bounds of the model.                                                    *)

MaxTime  == 1      \* the clock stops advancing here
MaxCalls == 4      \* API calls the host thread makes (Spec, SpecReg)
MaxShortCalls == 3 \* API calls the host thread makes (SpecShort)
MaxSched == 2      \* _BotTimers objects constructed (the first by __init__)
MaxBatchLines == 2 \* lines in one received text (SpecIrc)
MaxStarts == 2     \* calls of start() (SpecStart)
MaxShortLen == 4   \* characters of the short texts given to _IRCMessage (SpecParse)
MaxTagItems == 2   \* items of the tag texts given to _IRCTag (SpecParse)

NoSched == 0       \* None, as the value of TwitchBot.__timers
NoTime  == -1      \* None, as the value of _Timer.time_d
NoCode  == -1      \* no entry

SchedIds == 1..MaxSched

----------------------------------------------------------------------------
(* _Timer                                                                   *)

\* The values a caller may put in a random range: Python ints, floats with
\* an integral value, and strings.
I(n) == [kind |-> "int",   v |-> n]
F(n) == [kind |-> "float", v |-> n]
S    == [kind |-> "str",   v |-> 0]

Ok(t)    == [err |-> "none", timer |-> t]
Raise(e) == [err |-> e]

TimerTypes == {"sec", "min", "hr"}

\* datetime.timedelta(seconds=1 | minutes=1 | hours=1), in seconds
UnitSeconds(ttype) ==
    CASE ttype = "sec" -> 1
      [] ttype = "min" -> 60
      [] ttype = "hr"  -> 3600

\* _Timer.__init__
NewTimer(ttype) ==
    IF ttype \notin TimerTypes
    THEN Raise("ValueError")
    ELSE Ok([timerType |-> ttype, rawDelay |-> 0, time_d |-> NoTime,
             random |-> FALSE, randRange |-> <<>>, loop |-> FALSE,
             active |-> FALSE])

\* any([isinstance(x, int) for x in self.randRange])
AnyIsInt(rrange) == \E i \in 1..Len(rrange) : rrange[i].kind = "int"

\* random.randint(a, b): the set of results, or the exception it raises.
\* A str bound raises TypeError (a + 1); a float bound with an integral value
\* is accepted by randrange, which converts it with int().
randint(a, b) ==
    IF a.kind = "str" \/ b.kind = "str" THEN [err |-> "TypeError", vals |-> {}]
    ELSE IF a.v > b.v THEN [err |-> "ValueError", vals |-> {}]
    ELSE [err |-> "none", vals |-> a.v..b.v]

\* The tail of _Timer.setDelay: time_d = now + timedelta(<unit>=delay)
WithDelay(t, delay, nowv) ==
    [t EXCEPT !.time_d = nowv + delay * UnitSeconds(t.timerType)]

\* _Timer.setDelay: the set of outcomes (one per value random.randint may draw)
setDelay(t, delay, nowv) ==
    IF t.random
    THEN IF Len(t.randRange) # 2 THEN {Raise("ValueError")}
         ELSE IF AnyIsInt(t.randRange) THEN {Raise("ValueError")}
         ELSE LET r == randint(t.randRange[1], t.randRange[2])
              IN  IF r.err # "none" THEN {Raise(r.err)}
                  ELSE {Ok(WithDelay(t, d, nowv)) : d \in r.vals}
    ELSE {Ok(WithDelay(t, delay, nowv))}

\* _Timer.setupDiscreteTimer
setupDiscreteTimer(t, delay, loop, nowv) ==
    LET t1 == [t EXCEPT !.loop = loop, !.rawDelay = delay, !.random = FALSE]
    IN  {IF o.err = "none" THEN Ok([o.timer EXCEPT !.active = TRUE]) ELSE o :
            o \in setDelay(t1, delay, nowv)}

\* _Timer.setupRandomTimer
setupRandomTimer(t, rrange, loop, nowv) ==
    LET t1 == [t EXCEPT !.loop = loop, !.rawDelay = 0, !.random = TRUE,
                        !.randRange = rrange]
    IN  IF Len(rrange) # 2 THEN {Raise("ValueError")}
        ELSE {IF o.err = "none" THEN Ok([o.timer EXCEPT !.active = TRUE]) ELSE o :
                 o \in setDelay(t1, 0, nowv)}

\* check with the new instant counted from the instant the timer was due
check_FromDue(t, nowv) ==
    IF ~t.active THEN {[err |-> "none", ret |-> FALSE, timer |-> t]}
    ELSE IF nowv >= t.time_d
         THEN IF t.loop
              THEN {IF o.err = "none"
                    THEN [err |-> "none", ret |-> TRUE, timer |-> o.timer]
                    ELSE [err |-> o.err, ret |-> FALSE, timer |-> t] :
                       o \in setDelay(t, t.rawDelay, t.time_d)}
              ELSE {[err |-> "none", ret |-> TRUE,
                     timer |-> [t EXCEPT !.active = FALSE]]}
         ELSE {[err |-> "none", ret |-> FALSE, timer |-> t]}

\* check with line 220 left out: a due one-shot timer stays active
check_StaysActive(t, nowv) ==
    IF ~t.active THEN {[err |-> "none", ret |-> FALSE, timer |-> t]}
    ELSE IF nowv >= t.time_d
         THEN IF t.loop
              THEN {IF o.err = "none"
                    THEN [err |-> "none", ret |-> TRUE, timer |-> o.timer]
                    ELSE [err |-> o.err, ret |-> FALSE, timer |-> t] :
                       o \in setDelay(t, t.rawDelay, nowv)}
              ELSE {[err |-> "none", ret |-> TRUE, timer |-> t]}
         ELSE {[err |-> "none", ret |-> FALSE, timer |-> t]}

\* _Timer.check: the set of outcomes [err, ret, timer]
check(t, nowv) ==
    IF ~t.active THEN {[err |-> "none", ret |-> FALSE, timer |-> t]}
    ELSE IF nowv >= t.time_d
         THEN IF t.loop
              THEN {IF o.err = "none"
                    THEN [err |-> "none", ret |-> TRUE, timer |-> o.timer]
                    ELSE [err |-> o.err, ret |-> FALSE, timer |-> t] :
                       o \in setDelay(t, t.rawDelay, nowv)}
              ELSE {[err |-> "none", ret |-> TRUE,
                     timer |-> [t EXCEPT !.active = FALSE]]}
         ELSE {[err |-> "none", ret |-> FALSE, timer |-> t]}

\* no _Timer constructed yet (the declarations of __init__)
NoTimer == NewTimer("sec").timer

\* no check() made yet
NoCheck == [at |-> NoTime, ret |-> FALSE, before |-> NoTime]

----------------------------------------------------------------------------
(* Text.  A str is a sequence of one-character strings, so that every      *)
(* method of str the code calls is computed on the characters.             *)

\* the characters str.strip() and str.split() treat as whitespace, among the
\* characters of the texts below
IsSpace(c) == c \in {" ", "\t", "\n", "\r"}

\* the number of whitespace characters s ends with, counted from n
RECURSIVE trailing(_, _)
trailing(s, n) ==
    IF n < Len(s) /\ IsSpace(s[Len(s) - n]) THEN trailing(s, n + 1) ELSE n

\* the number of whitespace characters s begins with, counted from n
RECURSIVE leading(_, _)
leading(s, n) ==
    IF n < Len(s) /\ IsSpace(s[n + 1]) THEN leading(s, n + 1) ELSE n

\* s.strip()
strip(s) ==
    LET a == leading(s, 0)
    IN  IF a = Len(s) THEN <<>> ELSE SubSeq(s, a + 1, Len(s) - trailing(s, 0))

\* s.startswith(p)
startswith(s, p) == Len(s) >= Len(p) /\ SubSeq(s, 1, Len(p)) = p

\* s.find(sub, start): the lowest index (from 0), not below start, where sub
\* occurs in s, or -1
RECURSIVE findFrom(_, _, _)
findFrom(s, sub, start) ==
    IF start + Len(sub) > Len(s) THEN -1
    ELSE IF SubSeq(s, start + 1, start + Len(sub)) = sub THEN start
    ELSE findFrom(s, sub, start + 1)

\* s.find(sub)
find(s, sub) == findFrom(s, sub, 0)

\* s[start:].split(sep), sep not empty
RECURSIVE splitFrom(_, _, _)
splitFrom(s, sep, start) ==
    LET i == findFrom(s, sep, start)
    IN  IF i = -1 THEN <<SubSeq(s, start + 1, Len(s))>>
        ELSE <<SubSeq(s, start + 1, i)>> \o splitFrom(s, sep, i + Len(sep))

\* s.split(sep)
split(s, sep) == splitFrom(s, sep, 0)

\* the lowest index (from 1), not below start, of a whitespace character of
\* s, or Len(s) + 1
RECURSIVE spaceFrom(_, _)
spaceFrom(s, start) ==
    IF start > Len(s) \/ IsSpace(s[start]) THEN start ELSE spaceFrom(s, start + 1)

\* the lowest index (from 1), not below start, of another character of s,
\* or Len(s) + 1
RECURSIVE wordFrom(_, _)
wordFrom(s, start) ==
    IF start > Len(s) \/ ~IsSpace(s[start]) THEN start ELSE wordFrom(s, start + 1)

\* s[start-1:].split()
RECURSIVE splitWSFrom(_, _)
splitWSFrom(s, start) ==
    LET w == wordFrom(s, start)
        e == spaceFrom(s, w)
    IN  IF w > Len(s) THEN <<>>
        ELSE <<SubSeq(s, w, e - 1)>> \o splitWSFrom(s, e)

\* s.split(): runs of whitespace separate, no empty strings in the result
splitWS(s) == splitWSFrom(s, 1)

\* s.partition(sep)
partition(s, sep) ==
    LET i == find(s, sep)
    IN  IF i = -1 THEN <<s, <<>>, <<>>>>
        ELSE <<SubSeq(s, 1, i), sep, SubSeq(s, i + Len(sep) + 1, Len(s))>>

\* sep.join(parts)
RECURSIVE strjoin(_, _)
strjoin(sep, parts) ==
    IF parts = <<>> THEN <<>>
    ELSE IF Len(parts) = 1 THEN parts[1]
    ELSE parts[1] \o sep \o strjoin(sep, Tail(parts))

\* parts[n:], n counted from 0
From(parts, n) == SubSeq(parts, n + 1, Len(parts))

\* x in list
In(x, list) == \E i \in 1..Len(list) : list[i] = x

\* list.remove(x), x in list: the first occurrence goes
RECURSIVE remove(_, _)
remove(list, x) ==
    IF list = <<>> THEN <<>>
    ELSE IF Head(list) = x THEN Tail(list)
    ELSE <<Head(list)>> \o remove(Tail(list), x)

IsDigit(c) == c \in {"0", "1", "2", "3", "4", "5", "6", "7", "8", "9"}

DigitValue(c) ==
    CASE c = "0" -> 0 [] c = "1" -> 1 [] c = "2" -> 2 [] c = "3" -> 3 [] c = "4" -> 4
      [] c = "5" -> 5 [] c = "6" -> 6 [] c = "7" -> 7 [] c = "8" -> 8 [] c = "9" -> 9

RECURSIVE DigitsValue(_)
DigitsValue(d) ==
    IF d = <<>> THEN 0 ELSE 10 * DigitsValue(SubSeq(d, 1, Len(d) - 1)) + DigitValue(d[Len(d)])

\* int(value): surrounding whitespace and one sign are accepted, then digits
\* only; anything else is a ValueError
IntBody(value) ==
    LET v == strip(value)
    IN  IF v # <<>> /\ v[1] \in {"+", "-"} THEN Tail(v) ELSE v

IsInt(value) ==
    LET d == IntBody(value) IN d # <<>> /\ \A i \in 1..Len(d) : IsDigit(d[i])

int(value) ==
    LET v == strip(value)
        n == DigitsValue(IntBody(value))
    IN  IF v[1] = "-" THEN 0 - n ELSE n

----------------------------------------------------------------------------
(* The words of the protocol                                                *)

\* the commands incoming() knows (NAMES is the numeric 353)
Word ==
    [PING |-> <<"P", "I", "N", "G">>,
     NAMES |-> <<"3", "5", "3">>,
     PART |-> <<"P", "A", "R", "T">>,
     QUIT |-> <<"Q", "U", "I", "T">>,
     JOIN |-> <<"J", "O", "I", "N">>,
     MODE |-> <<"M", "O", "D", "E">>,
     NOTICE |-> <<"N", "O", "T", "I", "C", "E">>,
     ROOMSTATE |-> <<"R", "O", "O", "M", "S", "T", "A", "T", "E">>,
     PRIVMSG |-> <<"P", "R", "I", "V", "M", "S", "G">>]

\* the items _IRCTag knows
Key ==
    [badges |-> <<"b", "a", "d", "g", "e", "s">>,
     color |-> <<"c", "o", "l", "o", "r">>,
     display_name |-> <<"d", "i", "s", "p", "l", "a", "y", "-", "n", "a", "m", "e">>,
     emotes |-> <<"e", "m", "o", "t", "e", "s">>,
     id |-> <<"i", "d">>,
     mod |-> <<"m", "o", "d">>,
     subscriber |-> <<"s", "u", "b", "s", "c", "r", "i", "b", "e", "r">>,
     turbo |-> <<"t", "u", "r", "b", "o">>,
     room_id |-> <<"r", "o", "o", "m", "-", "i", "d">>,
     user_id |-> <<"u", "s", "e", "r", "-", "i", "d">>,
     user_type |-> <<"u", "s", "e", "r", "-", "t", "y", "p", "e">>,
     bits |-> <<"b", "i", "t", "s">>,
     emote_sets |-> <<"e", "m", "o", "t", "e", "-", "s", "e", "t", "s">>,
     broadcaster_lang |-> <<"b", "r", "o", "a", "d", "c", "a", "s", "t", "e", "r", "-", "l", "a", "n", "g">>,
     r9k |-> <<"r", "9", "k">>,
     subs_only |-> <<"s", "u", "b", "s", "-", "o", "n", "l", "y">>,
     slow |-> <<"s", "l", "o", "w">>,
     msg_param_months |-> <<"m", "s", "g", "-", "p", "a", "r", "a", "m", "-", "m", "o", "n", "t", "h", "s">>,
     system_msg |-> <<"s", "y", "s", "t", "e", "m", "-", "m", "s", "g">>,
     login |-> <<"l", "o", "g", "i", "n">>,
     ban_duration |-> <<"b", "a", "n", "-", "d", "u", "r", "a", "t", "i", "o", "n">>,
     ban_reason |-> <<"b", "a", "n", "-", "r", "e", "a", "s", "o", "n">>]

\* the msg-id values __updateNotice knows
Notice ==
    [subs_on |-> <<"s", "u", "b", "s", "_", "o", "n">>,
     slow_on |-> <<"s", "l", "o", "w", "_", "o", "n">>,
     r9k_on |-> <<"r", "9", "k", "_", "o", "n">>,
     host_on |-> <<"h", "o", "s", "t", "_", "o", "n">>,
     emote_only_on |-> <<"e", "m", "o", "t", "e", "_", "o", "n", "l", "y", "_", "o", "n">>,
     msg_channel_suspended |-> <<"m", "s", "g", "_", "c", "h", "a", "n", "n", "e", "l", "_", "s", "u", "s", "p", "e", "n", "d", "e", "d">>,
     subs_off |-> <<"s", "u", "b", "s", "_", "o", "f", "f">>,
     slow_off |-> <<"s", "l", "o", "w", "_", "o", "f", "f">>,
     r9k_off |-> <<"r", "9", "k", "_", "o", "f", "f">>,
     host_off |-> <<"h", "o", "s", "t", "_", "o", "f", "f">>,
     emote_only_off |-> <<"e", "m", "o", "t", "e", "_", "o", "n", "l", "y", "_", "o", "f", "f">>]

----------------------------------------------------------------------------
(* _IRCTag                                                                  *)

\* the declarations of _IRCTag.__init__
NoTag ==
    [err |-> "none", tags |-> <<>>, badges |-> <<>>, color |-> <<>>,
     display_name |-> <<>>, emotes |-> <<>>, msg_id |-> <<>>, isMod |-> FALSE,
     isSub |-> FALSE, isTurbo |-> FALSE, room_id |-> 0, user_id |-> 0,
     user_type |-> <<>>, isCheer |-> FALSE, bits |-> 0, emote_sets |-> <<>>,
     broadcaster_lang |-> <<>>, r9k |-> FALSE, subs_only |-> FALSE, slow |-> 0,
     msg_param_months |-> 0, system_msg |-> <<>>, login |-> <<>>,
     ban_duration |-> 0, ban_reason |-> <<>>]

IntKeys == {Key.room_id, Key.user_id, Key.bits, Key.slow, Key.msg_param_months, Key.ban_duration}

\* the assignment with line 135 left out
TagAssign_BitsOnly(tag, item, value) ==
    IF item = Key.bits THEN [tag EXCEPT !.bits = int(value)] ELSE tag

\* lines 123-144: the assignment one item=value token makes
TagAssign(tag, item, value) ==
    CASE item = Key.badges -> [tag EXCEPT !.badges = value]
      [] item = Key.color -> [tag EXCEPT !.color = value]
      [] item = Key.display_name -> [tag EXCEPT !.display_name = value]
      [] item = Key.emotes -> [tag EXCEPT !.emotes = value]
      [] item = Key.id -> [tag EXCEPT !.msg_id = value]
      [] item = Key.mod -> [tag EXCEPT !.isMod = (value = <<"1">>)]
      [] item = Key.subscriber -> [tag EXCEPT !.isSub = (value = <<"1">>)]
      [] item = Key.turbo -> [tag EXCEPT !.isTurbo = (value = <<"1">>)]
      [] item = Key.room_id -> [tag EXCEPT !.room_id = int(value)]
      [] item = Key.user_id -> [tag EXCEPT !.user_id = int(value)]
      [] item = Key.user_type -> [tag EXCEPT !.user_type = value]
      [] item = Key.bits -> [tag EXCEPT !.isCheer = TRUE, !.bits = int(value)]
      [] item = Key.emote_sets -> [tag EXCEPT !.emote_sets = split(value, <<",">>)]
      [] item = Key.broadcaster_lang -> [tag EXCEPT !.broadcaster_lang = value]
      [] item = Key.r9k -> [tag EXCEPT !.r9k = (value = <<"1">>)]
      [] item = Key.subs_only -> [tag EXCEPT !.subs_only = (value = <<"1">>)]
      [] item = Key.slow -> [tag EXCEPT !.slow = int(value)]
      [] item = Key.msg_param_months -> [tag EXCEPT !.msg_param_months = int(value)]
      [] item = Key.system_msg -> [tag EXCEPT !.system_msg = value]
      [] item = Key.login -> [tag EXCEPT !.login = value]
      [] item = Key.ban_duration -> [tag EXCEPT !.ban_duration = int(value)]
      [] item = Key.ban_reason -> [tag EXCEPT !.ban_reason = value]
      [] OTHER -> tag

\* lines 117-146: the loop over the tokens of the tag text
RECURSIVE TagTokens(_, _)
TagTokens(tag, tokens) ==
    IF tokens = <<>> THEN tag
    ELSE
      LET parts == split(Head(tokens), <<"=">>)
      IN  IF Len(parts) < 2 THEN TagTokens(tag, Tail(tokens))
          ELSE IF parts[1] \in IntKeys /\ ~IsInt(parts[2])
          THEN [IF parts[1] = Key.bits THEN [tag EXCEPT !.isCheer = TRUE] ELSE tag
                  EXCEPT !.err = "ValueError"]
          ELSE TagTokens([TagAssign(tag, parts[1], parts[2])
                            EXCEPT !.tags = Append(@, parts[1])],
                         Tail(tokens))

\* _IRCTag(raw_text)
IRCTag(raw_text) == TagTokens(NoTag, split(From(raw_text, 1), <<";">>))

----------------------------------------------------------------------------
(* _IRCMessage                                                              *)

\* the declarations of _IRCMessage.__init__; err is the exception the
\* constructor ends with; tag is None until tagged is TRUE
NoMessage ==
    [err |-> "none", message |-> <<>>, prefix |-> <<>>, username |-> <<>>,
     host |-> <<>>, serv |-> <<>>, IRCcmd |-> <<>>, IRCparams |-> <<>>,
     body |-> <<>>, command |-> <<>>, argument |-> <<>>, tagged |-> FALSE,
     tag |-> NoTag]

\* lines 62-66: the tokens after the command, up to one that starts with ':'
RECURSIVE ParamsOf(_)
ParamsOf(tokens) ==
    IF tokens = <<>> \/ startswith(Head(tokens), <<":">>) THEN <<>>
    ELSE <<Head(tokens)>> \o ParamsOf(Tail(tokens))

\* _IRCMessage(text)
IRCMessage(msgtext) ==
    IF ~startswith(msgtext, <<":">>) \/ Len(split(msgtext, <<" ">>)) < 2
    THEN NoMessage
    ELSE
      LET msg    == partition(msgtext, <<":">>)[3]
          words  == splitWS(msg)
          prefix == words[1]
          named  == find(prefix, <<"!">>) # -1 /\ find(prefix, <<"@">>) # -1
          user   == IF named THEN split(prefix, <<"!">>)[1] ELSE <<>>
          host   == IF named
                    THEN split(split(prefix, <<"!">>)[2], <<"@">>)[1] ELSE <<>>
          colons == split(msgtext, <<":">>)
          hasBody == Len(colons) > 2
          body   == IF hasBody THEN strjoin(<<":">>, From(colons, 2)) ELSE <<>>
          bodyTokens == split(body, <<" ">>)
      IN  IF Len(words) < 2
          THEN [NoMessage EXCEPT !.err = "IndexError"]
          ELSE [NoMessage EXCEPT
                  !.message = msg, !.prefix = prefix, !.username = user,
                  !.host = host, !.serv = host, !.IRCcmd = words[2],
                  !.IRCparams = ParamsOf(From(split(msg, <<" ">>), 2)),
                  !.body = body,
                  !.command = IF hasBody THEN bodyTokens[1] ELSE <<>>,
                  !.argument = IF hasBody /\ Len(bodyTokens) > 1
                               THEN partition(body, <<" ">>)[3] ELSE <<>>]

----------------------------------------------------------------------------
(* The user lists and the room states                                       *)

\* the room states of TwitchBot.__init__
NewRoom ==
    [subs_on |-> FALSE, slow_on |-> FALSE, r9k_on |-> FALSE, host_on |-> FALSE,
     emote_only_on |-> FALSE, msg_channel_suspended |-> FALSE,
     broadcaster_lang |-> <<>>]

\* the part of the bot that incoming() changes; err is the exception that
\* ended the operation, after the changes made before it was raised
Bot(ul, ml, rm) == [userlist |-> ul, modlist |-> ml, room |-> rm, err |-> "none"]

Markers == {"%", "@", "&"}

\* __appendUser without the membership tests of lines 729 and 732
appendUser_NoTest(bot, username) ==
    LET name  == strip(username)
        isMod == name[1] \in Markers
        nick  == IF isMod THEN Tail(name) ELSE name
        ml    == IF isMod THEN Append(bot.modlist, nick) ELSE bot.modlist
        ul    == Append(bot.userlist, nick)
    IN  IF Len(username) < 1 THEN bot
        ELSE IF name = <<>> THEN [bot EXCEPT !.err = "IndexError"]
        ELSE [bot EXCEPT !.userlist = ul, !.modlist = ml]

\* __appendUser with every name taken for a moderator's
appendUser_AllMods(bot, username) ==
    LET name  == strip(username)
        nick  == IF name[1] \in Markers THEN Tail(name) ELSE name
        ml    == IF ~In(nick, bot.modlist)
                 THEN Append(bot.modlist, nick) ELSE bot.modlist
        ul    == IF ~In(nick, bot.userlist)
                 THEN Append(bot.userlist, nick) ELSE bot.userlist
    IN  IF Len(username) < 1 THEN bot
        ELSE IF name = <<>> THEN [bot EXCEPT !.err = "IndexError"]
        ELSE [bot EXCEPT !.userlist = ul, !.modlist = ml]

\* __appendUser(username)
appendUser(bot, username) ==
    LET name  == strip(username)
        isMod == name[1] \in Markers
        nick  == IF isMod THEN Tail(name) ELSE name
        ml    == IF isMod /\ ~In(nick, bot.modlist)
                 THEN Append(bot.modlist, nick) ELSE bot.modlist
        ul    == IF ~In(nick, bot.userlist)
                 THEN Append(bot.userlist, nick) ELSE bot.userlist
    IN  IF Len(username) < 1 THEN bot
        ELSE IF name = <<>> THEN [bot EXCEPT !.err = "IndexError"]
        ELSE [bot EXCEPT !.userlist = ul, !.modlist = ml]

\* __removeUser that leaves the moderator list alone
removeUser_UserlistOnly(bot, username) ==
    LET name == strip(username)
    IN  [bot EXCEPT !.userlist = IF In(name, @) THEN remove(@, name) ELSE @]

\* __removeUser(username)
removeUser(bot, username) ==
    LET name == strip(username)
    IN  [bot EXCEPT
           !.userlist = IF In(name, @) THEN remove(@, name) ELSE @,
           !.modlist  = IF In(name, @) THEN remove(@, name) ELSE @]

\* 'o' in modeset or 'a' in modeset or 'h' in modeset
IsOpMode(modeset) == \E i \in 1..Len(modeset) : modeset[i] \in {"o", "a", "h"}

\* __updateUser without the tests of lines 752 and 756 for the letters
updateUser_AnyLetter(bot, IRCparams) ==
    LET modeset == IRCparams[2]
        name    == strip(IRCparams[3])
    IN  IF Len(IRCparams) < 3 THEN bot
        ELSE IF startswith(modeset, <<"+">>) /\ ~In(name, bot.modlist)
        THEN [bot EXCEPT !.modlist = Append(@, name)]
        ELSE IF startswith(modeset, <<"-">>) /\ In(name, bot.modlist)
        THEN [bot EXCEPT !.modlist = remove(@, name)]
        ELSE bot

\* __updateUser(IRCparams)
updateUser(bot, IRCparams) ==
    LET modeset == IRCparams[2]
        name    == strip(IRCparams[3])
    IN  IF Len(IRCparams) < 3 THEN bot
        ELSE IF startswith(modeset, <<"+">>) /\ IsOpMode(modeset)
                /\ ~In(name, bot.modlist)
        THEN [bot EXCEPT !.modlist = Append(@, name)]
        ELSE IF startswith(modeset, <<"-">>) /\ IsOpMode(modeset)
                /\ In(name, bot.modlist)
        THEN [bot EXCEPT !.modlist = remove(@, name)]
        ELSE bot

\* __setUserList: the loop over the names, which an exception leaves
RECURSIVE appendUsers(_, _)
appendUsers(bot, names) ==
    IF names = <<>> \/ bot.err # "none" THEN bot
    ELSE appendUsers(appendUser(bot, Head(names)), Tail(names))

\* __setUserList(text)
setUserList(bot, msg) == appendUsers(bot, split(msg.body, <<" ">>))

\* __updateRoomstate(tag): the loop over tag.tags
RECURSIVE roomstates(_, _, _)
roomstates(rm, tag, states) ==
    IF states = <<>> THEN rm
    ELSE LET state == Head(states)
             next  ==
               CASE state = Key.broadcaster_lang ->
                        [rm EXCEPT !.broadcaster_lang = tag.broadcaster_lang]
                 [] state = Key.r9k -> [rm EXCEPT !.r9k_on = tag.r9k]
                 [] state = Key.subs_only -> [rm EXCEPT !.subs_on = tag.subs_only]
                 [] state = Key.slow -> [rm EXCEPT !.slow_on = (tag.slow > 0)]
                 [] OTHER -> rm
         IN  roomstates(next, tag, Tail(states))

\* __updateRoomstate(tag)
updateRoomstate(bot, tag) == [bot EXCEPT !.room = roomstates(@, tag, tag.tags)]

\* __updateNotice(msg_id)
updateNotice(bot, msg_id) ==
    [bot EXCEPT !.room =
        CASE msg_id = Notice.subs_on -> [@ EXCEPT !.subs_on = TRUE]
          [] msg_id = Notice.slow_on -> [@ EXCEPT !.slow_on = TRUE]
          [] msg_id = Notice.r9k_on -> [@ EXCEPT !.r9k_on = TRUE]
          [] msg_id = Notice.host_on -> [@ EXCEPT !.host_on = TRUE]
          [] msg_id = Notice.emote_only_on -> [@ EXCEPT !.emote_only_on = TRUE]
          [] msg_id = Notice.msg_channel_suspended ->
                 [@ EXCEPT !.msg_channel_suspended = TRUE]
          [] msg_id = Notice.subs_off -> [@ EXCEPT !.subs_on = FALSE]
          [] msg_id = Notice.slow_off -> [@ EXCEPT !.slow_on = FALSE]
          [] msg_id = Notice.r9k_off -> [@ EXCEPT !.r9k_on = FALSE]
          [] msg_id = Notice.host_off -> [@ EXCEPT !.host_on = FALSE]
          [] msg_id = Notice.emote_only_off -> [@ EXCEPT !.emote_only_on = FALSE]
          [] OTHER -> @]

----------------------------------------------------------------------------
(* incoming(): what the body of the for loop does with one line             *)

\* a PONG for every line that holds PING
Pongs_PerLine(t) ==
    LET ls == split(t, <<"\n">>)
    IN  [i \in 1..Cardinality({j \in 1..Len(ls) : find(ls[j], Word.PING) # -1}) |-> "pong"]

\* lines 603-604: what is sent before the for loop
Pongs(t) == IF find(t, Word.PING) # -1 THEN <<"pong">> ELSE <<>>

\* lines 609-615: the tag text and the message text of a line
TagText(line) ==
    IF startswith(line, <<"@">>) THEN partition(line, <<" ">>)[1] ELSE <<>>

MsgText(line) ==
    IF startswith(line, <<"@">>) THEN partition(line, <<" ">>)[3] ELSE line

\* lines 618-625: the user lists
Dispatch(bot, msg) ==
    IF msg.IRCcmd = Word.NAMES THEN setUserList(bot, msg)
    ELSE IF msg.IRCcmd = Word.PART \/ msg.IRCcmd = Word.QUIT
    THEN removeUser(bot, msg.username)
    ELSE IF msg.IRCcmd = Word.JOIN THEN appendUser(bot, msg.username)
    ELSE IF msg.IRCcmd = Word.MODE THEN updateUser(bot, msg.IRCparams)
    ELSE bot

\* lines 632-635: the room states
Roomstate(bot, msg, tag) ==
    IF msg.IRCcmd = Word.NOTICE THEN updateNotice(bot, tag.msg_id)
    ELSE IF msg.IRCcmd = Word.ROOMSTATE THEN updateRoomstate(bot, tag)
    ELSE bot

\* lines 607-637, one pass: the bot and the local message after it.  An
\* exception leaves the pass where it is raised: in _IRCMessage before
\* message is assigned, in a list operation before message.tag is, in
\* _IRCTag after the list operation
LinePass(bot, old, line) ==
    LET msg  == IRCMessage(MsgText(line))
        bot1 == Dispatch(bot, msg)
        tag  == IRCTag(TagText(line))
    IN  IF msg.err # "none"
        THEN [bot |-> [bot EXCEPT !.err = msg.err], message |-> old]
        ELSE IF bot1.err # "none" THEN [bot |-> bot1, message |-> msg]
        ELSE IF tag.err # "none"
        THEN [bot |-> [bot1 EXCEPT !.err = tag.err], message |-> msg]
        ELSE [bot |-> Roomstate(bot1, msg, tag),
              message |-> [msg EXCEPT !.tagged = TRUE, !.tag = tag]]

----------------------------------------------------------------------------
(* start(): the configuration and the lookup of the chat server             *)

\* None, and a value that is not None
None == <<>>
Some(v) == <<v>>

\* username, channel, password and server after TwitchBot.__init__
NewConf == [username |-> None, channel |-> None, password |-> None, server |-> None]

\* 'irc.twitch.tv'
DefaultServer == <<"i", "r", "c", ".", "t", "w", "i", "t", "c", "h", ".", "t", "v">>

\* what requests.get and r.json() can meet: a network error, a body that is
\* not JSON, or a JSON object, with or without the field servers
Response(kind, hasServers, servers) ==
    [kind |-> kind, hasServers |-> hasServers, servers |-> servers]

NoLookup == Response("none", FALSE, <<>>)

Responses ==
    { Response("error", FALSE, <<>>),
      Response("notjson", FALSE, <<>>),
      Response("json", FALSE, <<>>),
      Response("json", TRUE, <<>>),
      Response("json", TRUE, << <<"h", ":", "8", "0">> >>),
      Response("json", TRUE, << <<"g">>, <<"h", ":", "8", "0">> >>) }

\* __request_chat_server(streamer), given what the lookup meets
request_chat_server(resp) ==
    IF resp.kind = "error" THEN [err |-> "ConnectionError", server |-> <<>>]
    ELSE IF resp.kind = "notjson" THEN [err |-> "JSONDecodeError", server |-> <<>>]
    ELSE IF ~resp.hasServers THEN [err |-> "none", server |-> DefaultServer]
    ELSE IF resp.servers = <<>> THEN [err |-> "none", server |-> DefaultServer]
    ELSE [err |-> "none", server |-> split(resp.servers[1], <<":">>)[1]]

\* the sends of start() with NICK ahead of PASS
Handshake_NickFirst ==
    <<"NICK", "PASS", "USER", "CAP REQ membership", "CAP REQ tags", "JOIN">>

\* lines 536-543: what start() sends once connected, in this order
Handshake == <<"PASS", "NICK", "USER", "CAP REQ membership", "CAP REQ tags", "JOIN">>

----------------------------------------------------------------------------
(* User variables                                                           *)

Lowercase == <<"a","b","c","d","e","f","g","h","i","j","k","l","m",
               "n","o","p","q","r","s","t","u","v","w","x","y","z">>
Uppercase == <<"A","B","C","D","E","F","G","H","I","J","K","L","M",
               "N","O","P","Q","R","S","T","U","V","W","X","Y","Z">>

\* str.lower()
lower(s) ==
    [i \in 1..Len(s) |->
        IF \E k \in 1..26 : Uppercase[k] = s[i]
        THEN Lowercase[CHOOSE k \in 1..26 : Uppercase[k] = s[i]]
        ELSE s[i]]

\* \w of the pattern, for ASCII text
IsWordChar(c) ==
    \/ \E k \in 1..26 : c = Lowercase[k] \/ c = Uppercase[k]
    \/ IsDigit(c)
    \/ c = "_"

\* re.fullmatch('[a-z][\w_]+', varname) != None
ValidName(varname) ==
    /\ Len(varname) >= 2
    /\ \E k \in 1..26 : varname[1] = Lowercase[k]
    /\ \A i \in 2..Len(varname) : IsWordChar(varname[i])

\* type_d of setInfoFromConfig
type_d == [boolean |-> "bool", string |-> "str", number |-> "int"]

\* the dict with one more key, or one key rebound
Bind(dict, key, entry) ==
    [k \in DOMAIN dict \cup {key} |-> IF k = key THEN entry ELSE dict[k]]

\* the dict without a key
Unbind(dict, key) == [k \in DOMAIN dict \ {key} |-> dict[k]]

\* no call made yet
NoVarCall == [op |-> "none", varname |-> <<>>, value |-> None, vartype |-> None,
              err |-> "none", ret |-> None]

\* how a call ends: the exception, the returned object, the store after it
Ends(err, ret, dict) == [err |-> err, ret |-> ret, variables |-> dict]

\* setInfoFromConfig on a file whose one line is 'declare vartype varname'
declare(dict, vartype, varname) ==
    IF vartype \notin DOMAIN type_d THEN Ends("ValueError", None, dict)
    ELSE IF ~ValidName(varname) THEN Ends("ValueError", None, dict)
    ELSE IF varname \in DOMAIN dict THEN Ends("KeyError", None, dict)
    ELSE Ends("none", None,
              Bind(dict, varname, [value |-> None, type |-> Some(type_d[vartype])]))

getUserVar(dict, varname) ==
    IF varname \notin DOMAIN dict THEN Ends("KeyError", None, dict)
    ELSE Ends("none", dict[varname].value, dict)

setUserVar(dict, varname, value) ==
    IF varname \notin DOMAIN dict THEN Ends("KeyError", None, dict)
    ELSE Ends("none", None, Bind(dict, varname, [dict[varname] EXCEPT !.value = value]))

\* line 706 subscripts self.__variables[varname] of a name the test of line
\* 700 has shown to be no key of the dict: KeyError
newUserVar(dict, varname, value, vartype) ==
    IF varname \in DOMAIN dict THEN Ends("KeyError", None, dict)
    ELSE IF ~ValidName(varname) THEN Ends("ValueError", None, dict)
    ELSE IF varname \notin DOMAIN dict THEN Ends("KeyError", None, dict)
    ELSE Ends("none", None,
              Bind(dict, varname, [value |-> value, type |-> vartype]))

delUserVar(dict, varname) ==
    IF varname \notin DOMAIN dict THEN Ends("KeyError", None, dict)
    ELSE Ends("none", None, Unbind(dict, varname))

getUserVarType(dict, varname) ==
    IF varname \notin DOMAIN dict THEN Ends("KeyError", None, dict)
    ELSE Ends("none", dict[varname].type, dict)

setUserVarType(dict, varname, vartype) ==
    IF varname \notin DOMAIN dict THEN Ends("KeyError", None, dict)
    ELSE Ends("none", None, Bind(dict, varname, [dict[varname] EXCEPT !.type = vartype]))

----------------------------------------------------------------------------
(* _BotTimers objects, their scheduler threads, and the bot's timer state   *)

\* t_entry as addTimer fills it in; 'code' is read from __timercode here.
NewEntry(t, cb, code) ==
    [timer |-> t, callback |-> cb, code |-> code, paused |-> FALSE]

\* addTimer's local t_entry while no addTimer call is in progress
NoEntry == NewEntry(NewTimer("sec").timer, "noop", NoCode)

\* _BotTimers.__init__; pc is the position of the object's thread:
\*   "none" (object not constructed), "unstarted", "test" (in time.sleep or
\*   at the while test), "acquire" (at lock.acquire), "sweep" (in the for
\*   loop, lock held), "cb_append" / "cb_inc_read" / "cb_inc_write" (inside
\*   a callback that calls addTimer), "cb_acquire" / "cb_wait" / "cb_body"
\*   (inside a callback that calls one of the locked operations: before
\*   self.__timers.lock is evaluated, waiting for the lock of object cwait,
\*   holding it), "exited", "crashed" (an exception left __loop).
NewSched ==
    [timerList |-> <<>>, initialized |-> TRUE, active |-> FALSE,
     lock |-> "free", pc |-> "unstarted", idx |-> 1, del_q |-> <<>>,
     centry |-> NoEntry, ctmp |-> 0, cwait |-> NoSched]

NoObject == [NewSched EXCEPT !.pc = "none"]

SweepPcs == {"sweep", "cb_append", "cb_inc_read", "cb_inc_write",
             "cb_acquire", "cb_wait", "cb_body"}

\* the callbacks that call an operation of the bot which takes the lock
LockingCallbacks ==
    {"removeTimer", "pauseTimer", "resumeTimer", "timerExists",
     "pauseTimers", "resumeTimers"}

Errors == {"ValueError", "TypeError", "AttributeError", "RuntimeError"}

\* hcall: the arguments, and 'offset', the timer's time_d - now as addTimer
\* computed it (NoTime when it raised before computing one)
NoCall == [rand |-> FALSE, ttype |-> "sec", delay |-> 0, rrange |-> <<>>,
           loop |-> FALSE, callback |-> "noop", offset |-> NoTime]

\* The addTimer calls the host makes: fixed-delay timers (one-shot and
\* looping, with a callback that does nothing or one that registers a timer),
\* an unknown timer type, and random ranges of every shape.
Discrete(delay, cb, loop) ==
    [rand |-> FALSE, ttype |-> "sec", delay |-> delay, rrange |-> <<>>,
     loop |-> loop, callback |-> cb]
Random(ttype, rrange, loop) ==
    [rand |-> TRUE, ttype |-> ttype, delay |-> 0, rrange |-> rrange,
     loop |-> loop, callback |-> "noop"]

CoreInputs ==
    { Discrete(1, "noop", FALSE), Discrete(1, "add", FALSE),
      Discrete(1, "noop", TRUE) }

AddInputs ==
    CoreInputs \cup
    { Discrete(0, "noop", FALSE),
      [Discrete(1, "noop", FALSE) EXCEPT !.ttype = "min"],
      [Discrete(1, "noop", FALSE) EXCEPT !.ttype = "day"],
      Random("sec", <<>>, FALSE), Random("sec", <<I(1)>>, FALSE),
      Random("sec", <<I(1), I(2), I(3)>>, FALSE),
      Random("sec", <<I(1), I(2)>>, FALSE), Random("min", <<I(1), I(1)>>, TRUE),
      Random("sec", <<S, S>>, FALSE), Random("sec", <<I(1), S>>, FALSE),
      Random("sec", <<F(1), F(2)>>, TRUE), Random("hr", <<F(2), F(1)>>, TRUE) }

\* What a callback of kind "add" passes to addTimer.
CbAddInput == Discrete(1, "noop", FALSE)

\* TwitchBot.addTimer up to the construction of t_entry: the _Timer is built
\* and set up; the set of outcomes.
addTimerSetup(inp, nowv) ==
    LET nt == NewTimer(inp.ttype)
    IN  IF nt.err # "none" THEN {nt}
        ELSE IF inp.rand
             THEN setupRandomTimer(nt.timer, inp.rrange, inp.loop, nowv)
             ELSE setupDiscreteTimer(nt.timer, inp.delay, inp.loop, nowv)

\* for e in del_q: self.timerList.remove(e)  (entries are compared by identity)
RECURSIVE RemoveAt(_, _, _)
RemoveAt(list, dq, i) ==
    IF i > Len(list) THEN <<>>
    ELSE IF \E j \in 1..Len(dq) : dq[j] = i
         THEN RemoveAt(list, dq, i + 1)
         ELSE <<list[i]>> \o RemoveAt(list, dq, i + 1)

\* for entry in timerList: if entry['code'] == code: entry['timer'].active = False
Deactivate(list, code) ==
    [i \in 1..Len(list) |->
        IF list[i].code = code THEN [list[i] EXCEPT !.timer.active = FALSE]
        ELSE list[i]]

\* for entry in timerList: if entry['code'] == code: entry['paused'] = p
SetPaused(list, code, p) ==
    [i \in 1..Len(list) |->
        IF list[i].code = code THEN [list[i] EXCEPT !.paused = p] ELSE list[i]]

\* what the operation does between acquire and release to the object it is
\* called on, 'code' being its argument
LockedBody(op, obj, code) ==
    CASE op = "removeTimer" -> [obj EXCEPT !.timerList = Deactivate(@, code)]
      [] op = "pauseTimer" -> [obj EXCEPT !.timerList = SetPaused(@, code, TRUE)]
      [] op = "resumeTimer" -> [obj EXCEPT !.timerList = SetPaused(@, code, FALSE)]
      [] op = "pauseTimers" -> [obj EXCEPT !.active = FALSE]
      [] op = "resumeTimers" -> [obj EXCEPT !.active = TRUE]
      [] OTHER -> obj

\* load_bit_info, lines 22-25: the record used when bit.data cannot be read
NewBitInfo ==
    [latest |-> [user |-> <<>>, amount |-> 0], max |-> [user |-> <<>>, amount |-> 0]]

HistoryUnchanged == UNCHANGED <<codesReturned, removedRet, killedRet>>
HostLocalsUnchanged == UNCHANGED <<hentry, htmp, harg, hcall>>

InitWith(calls) ==
    /\ now = 0
    /\ timercode = 0
    /\ timers = 1
    /\ nSched = 1
    /\ sched = [k \in SchedIds |-> IF k = 1 THEN NewSched ELSE NoObject]
    /\ hpc = "idle"
    /\ hentry = NoEntry
    /\ htmp = 0
    /\ harg = NoCode
    /\ hcall = NoCall
    /\ hres = "none"
    /\ codesReturned = <<>>
    /\ removedRet = {}
    /\ killedRet = {}
    /\ fired = NoCode
    /\ callsLeft = calls
    /\ userlist = <<>>
    /\ modlist = <<>>
    /\ room = NewRoom
    /\ ipc = "idle"
    /\ batch = <<>>
    /\ text = <<>>
    /\ lines = <<>>
    /\ message = NoMessage
    /\ trace = <<>>
    /\ ires = "none"
    /\ conf = NewConf
    /\ spc = "idle"
    /\ lookup = NoLookup
    /\ netlog = <<>>
    /\ sres = "none"
    /\ startsLeft = MaxStarts
    /\ pfun = "none"
    /\ parg = <<>>
    /\ pres = NoMessage
    /\ variables = <<>>
    /\ vop = NoVarCall
    /\ tm = NoTimer
    /\ tchk = NoCheck
    /\ on = TRUE
    /\ ack = FALSE
    /\ mainpc = "sleep"
    /\ scanpc = "start"
    /\ chat = "open"
    /\ bit_info = NewBitInfo
    /\ bitdata = NewBitInfo
    /\ config = TRUE

Init == InitWith(MaxCalls)

InitShort == InitWith(MaxShortCalls)

\* The clock advances.
Tick ==
    /\ now < MaxTime
    /\ now' = now + 1
    /\ fired' = NoCode
    /\ UNCHANGED <<timercode, timers, nSched, sched, hpc, hres, callsLeft>>
    /\ HostLocalsUnchanged /\ HistoryUnchanged
    /\ UNCHANGED <<ircVars, apiVars>>

----------------------------------------------------------------------------
(* The host thread: TwitchBot's timer API                                   *)

\* Every host step: no callback is invoked by it, the clock and the session
\* state stay.
HostOnly ==
    /\ fired' = NoCode
    /\ UNCHANGED <<now, ircVars, apiVars>>

\* The host thread enters an API call.
HostCalls ==
    /\ hpc = "idle"
    /\ callsLeft > 0
    /\ callsLeft' = callsLeft - 1

\* AddFailed, had addTimer counted the code before it set the timer up.
AddFailed_CodeCounted(e) ==
    /\ hres' = e
    /\ timercode' = timercode + 1
    /\ UNCHANGED <<hpc, hentry, htmp, harg, timers, nSched, sched>>
    /\ HistoryUnchanged

\* addTimer leaves by an exception raised while the timer is set up: nothing
\* of the bot has been touched yet.
AddFailed(e) ==
    /\ hres' = e
    /\ UNCHANGED <<hpc, hentry, htmp, harg, timercode, timers, nSched, sched>>
    /\ HistoryUnchanged

\* addTimer, lines 465-477: build and set up the timer, fill in t_entry.
\* 'inputs' are the argument lists the call is made with; with 'track' the
\* call is recorded in hcall.
HostAddBegin(inputs, track) ==
    /\ HostCalls
    /\ \E inp \in inputs : \E o \in addTimerSetup(inp, now) :
          IF o.err # "none"
          THEN /\ AddFailed(o.err)
               /\ hcall' = IF track THEN inp @@ [offset |-> NoTime] ELSE hcall
          ELSE /\ hentry' = NewEntry(o.timer, inp.callback, timercode)
               /\ hcall' = IF track THEN inp @@ [offset |-> o.timer.time_d - now]
                           ELSE hcall
               /\ hpc' = "add_append"
               /\ hres' = "none"
               /\ UNCHANGED <<htmp, harg, timercode, timers, nSched, sched>>
               /\ HistoryUnchanged
    /\ HostOnly

\* addTimer, line 480: self.__timers.timerList.append(t_entry), without the lock
HostAddAppend ==
    /\ hpc = "add_append"
    /\ IF timers = NoSched
       THEN /\ hpc' = "idle"
            /\ hres' = "AttributeError"
            /\ hentry' = NoEntry
            /\ UNCHANGED sched
       ELSE /\ sched' = [sched EXCEPT ![timers].timerList = Append(@, hentry)]
            /\ hpc' = "add_inc_read"
            /\ UNCHANGED <<hres, hentry>>
    /\ UNCHANGED <<htmp, harg, hcall, timercode, timers, nSched, callsLeft>>
    /\ HistoryUnchanged
    /\ HostOnly

\* addTimer, line 482: self.__timercode += 1, the load
HostAddIncRead ==
    /\ hpc = "add_inc_read"
    /\ htmp' = timercode
    /\ hpc' = "add_inc_write"
    /\ UNCHANGED <<hentry, harg, hcall, hres, timercode, timers, nSched, sched, callsLeft>>
    /\ HistoryUnchanged
    /\ HostOnly

\* addTimer, lines 482-483: the store of  self.__timercode += 1  and the return
HostAddIncWrite ==
    /\ hpc = "add_inc_write"
    /\ timercode' = htmp + 1
    /\ codesReturned' = Append(codesReturned, hentry.code)
    /\ hpc' = "idle"
    /\ hres' = "ok"
    /\ hentry' = NoEntry
    /\ htmp' = 0
    /\ UNCHANGED <<harg, hcall, timers, nSched, sched, callsLeft, removedRet, killedRet>>
    /\ HostOnly

\* The codes addTimer has returned: what a caller can pass to removeTimer,
\* pauseTimer and resumeTimer.
ReturnedCodes == {codesReturned[i] : i \in 1..Len(codesReturned)}

\* HostAcquire, had the call gone on without waiting for the lock.
HostAcquire_NoWait(pc) ==
    /\ HostCalls
    /\ timers # NoSched
    /\ sched' = [sched EXCEPT ![timers].lock = "host"]
    /\ hpc' = pc
    /\ \E c \in ReturnedCodes : harg' = c
    /\ hres' = "none"
    /\ UNCHANGED <<hentry, htmp, hcall, timercode, timers, nSched>>
    /\ HistoryUnchanged
    /\ HostOnly

\* self.__timers.lock.acquire(True) as the first statement of removeTimer,
\* pauseTimer or resumeTimer, which goes on at position pc
HostAcquire(pc) ==
    /\ HostCalls
    /\ timers # NoSched
    /\ sched[timers].lock = "free"
    /\ sched' = [sched EXCEPT ![timers].lock = "host"]
    /\ hpc' = pc
    /\ \E c \in ReturnedCodes : harg' = c
    /\ hres' = "none"
    /\ UNCHANGED <<hentry, htmp, hcall, timercode, timers, nSched>>
    /\ HistoryUnchanged
    /\ HostOnly

\* The rest of removeTimer, pauseTimer or resumeTimer: the for loop leaves
\* the timer list as 'list'; self.__timers.lock.release()
HostBodyRelease(pc, list) ==
    /\ hpc = pc
    /\ sched' = [sched EXCEPT ![timers].timerList = list, ![timers].lock = "free"]
    /\ hpc' = "idle"
    /\ hres' = "ok"
    /\ harg' = NoCode
    /\ UNCHANGED <<hentry, htmp, hcall, timercode, timers, nSched, callsLeft>>
    /\ UNCHANGED <<codesReturned, killedRet>>
    /\ HostOnly

\* removeTimer, pauseTimer, resumeTimer, startTimers or killTimers called
\* while self.__timers is None: AttributeError
HostCallNoTimers ==
    /\ HostCalls
    /\ timers = NoSched
    /\ hres' = "AttributeError"
    /\ UNCHANGED <<hpc, hentry, htmp, harg, hcall, timercode, timers, nSched, sched>>
    /\ HistoryUnchanged
    /\ HostOnly

\* removeTimer, line 485
HostRemoveAcquire == HostAcquire("rm_body")

\* removeTimer, lines 486-489
HostRemoveBody ==
    /\ HostBodyRelease("rm_body", Deactivate(sched[timers].timerList, harg))
    /\ removedRet' = removedRet \cup {harg}

\* pauseTimer, line 491
HostPauseAcquire == HostAcquire("pause_body")

\* pauseTimer, lines 492-495
HostPauseBody ==
    /\ HostBodyRelease("pause_body", SetPaused(sched[timers].timerList, harg, TRUE))
    /\ UNCHANGED removedRet

\* resumeTimer, line 497
HostResumeAcquire == HostAcquire("resume_body")

\* resumeTimer, lines 498-501
HostResumeBody ==
    /\ HostBodyRelease("resume_body", SetPaused(sched[timers].timerList, harg, FALSE))
    /\ UNCHANGED removedRet

\* initializeTimers: self.__timers = _BotTimers(); the object it replaces,
\* and that object's thread, live on
HostInitializeTimers ==
    /\ HostCalls
    /\ nSched < MaxSched
    /\ nSched' = nSched + 1
    /\ timers' = nSched + 1
    /\ sched' = [sched EXCEPT ![nSched + 1] = NewSched]
    /\ hres' = "ok"
    /\ UNCHANGED <<hpc, hentry, htmp, harg, hcall, timercode>>
    /\ HistoryUnchanged
    /\ HostOnly

\* startTimers -> _BotTimers.begin: active = True, then thread.start(), which
\* raises RuntimeError when the thread was started before
HostStartTimers ==
    /\ HostCalls
    /\ timers # NoSched
    /\ sched' = [sched EXCEPT
                    ![timers].active = TRUE,
                    ![timers].pc = IF @ = "unstarted" THEN "test" ELSE @]
    /\ hres' = IF sched[timers].pc = "unstarted" THEN "ok" ELSE "RuntimeError"
    /\ UNCHANGED <<hpc, hentry, htmp, harg, hcall, timercode, timers, nSched>>
    /\ HistoryUnchanged
    /\ HostOnly

\* killTimers, lines 457-458: acquire the lock, clear 'initialized'
HostKillAcquire ==
    /\ HostCalls
    /\ timers # NoSched
    /\ sched[timers].lock = "free"
    /\ sched' = [sched EXCEPT ![timers].lock = "host", ![timers].initialized = FALSE]
    /\ hpc' = "kill_release"
    /\ hres' = "none"
    /\ UNCHANGED <<hentry, htmp, harg, hcall, timercode, timers, nSched>>
    /\ HistoryUnchanged
    /\ HostOnly

\* killTimers, line 459: release
HostKillRelease ==
    /\ hpc = "kill_release"
    /\ sched' = [sched EXCEPT ![timers].lock = "free"]
    /\ hpc' = "kill_reacquire"
    /\ UNCHANGED <<hentry, htmp, harg, hcall, hres, timercode, timers, nSched, callsLeft>>
    /\ HistoryUnchanged
    /\ HostOnly

\* killTimers, had it released the lock before it returned
HostKillReacquire_Released ==
    /\ hpc = "kill_reacquire"
    /\ sched[timers].lock = "free"
    /\ sched' = sched
    /\ timers' = NoSched
    /\ killedRet' = killedRet \cup {timers}
    /\ hpc' = "idle"
    /\ hres' = "ok"
    /\ UNCHANGED <<hentry, htmp, harg, hcall, timercode, nSched, callsLeft>>
    /\ UNCHANGED <<codesReturned, removedRet>>
    /\ HostOnly

\* killTimers, lines 460-461: acquire the lock again (it is never released),
\* self.__timers = None, return
HostKillReacquire ==
    /\ hpc = "kill_reacquire"
    /\ sched[timers].lock = "free"
    /\ sched' = [sched EXCEPT ![timers].lock = "host"]
    /\ timers' = NoSched
    /\ killedRet' = killedRet \cup {timers}
    /\ hpc' = "idle"
    /\ hres' = "ok"
    /\ UNCHANGED <<hentry, htmp, harg, hcall, timercode, nSched, callsLeft>>
    /\ UNCHANGED <<codesReturned, removedRet>>
    /\ HostOnly

----------------------------------------------------------------------------
(* The scheduler thread of object k: _BotTimers.__loop                      *)

SchedOnly ==
    /\ UNCHANGED <<now, hpc, hentry, htmp, harg, hcall, hres, timers, nSched, callsLeft>>
    /\ UNCHANGED <<removedRet, killedRet, ircVars, apiVars>>

\* line 246, after time.sleep(1) or at the start: while self.initialized
SchedTest(k) ==
    /\ sched[k].pc = "test"
    /\ sched' = [sched EXCEPT ![k].pc = IF sched[k].initialized THEN "acquire"
                                        ELSE "exited"]
    /\ fired' = NoCode
    /\ UNCHANGED <<timercode, codesReturned>>
    /\ SchedOnly

\* lines 247-248: del_q = []; self.lock.acquire(True)
SchedAcquire(k) ==
    /\ sched[k].pc = "acquire"
    /\ sched[k].lock = "free"
    /\ sched' = [sched EXCEPT ![k].lock = "sched", ![k].pc = "sweep",
                              ![k].idx = 1, ![k].del_q = <<>>]
    /\ fired' = NoCode
    /\ UNCHANGED <<timercode, codesReturned>>
    /\ SchedOnly

\* lines 252-253, after the callback (if any) of the entry at idx:
\* if not entry['timer'].active: del_q.append(entry); on to the next entry
AfterEntry(s) ==
    [s EXCEPT !.del_q = IF s.timerList[s.idx].timer.active THEN @
                        ELSE Append(@, s.idx),
              !.idx = @ + 1,
              !.pc = "sweep", !.centry = NoEntry, !.ctmp = 0]

\* line 250: whether the callback of entry e is invoked, 'ret' being what
\* entry['timer'].check() returned
Invokes(s, e, ret) == ret /\ s.active /\ ~e.paused

\* lines 249-253 for the entry at idx.  check() is evaluated first; the
\* callback runs in this thread with the lock held.  A callback of kind
\* "add" calls addTimer (lines 465-477 here, the rest in the steps below).
SchedEntry(k) ==
    LET s == sched[k]
        e == s.timerList[s.idx]
    IN  /\ s.pc = "sweep"
        /\ s.idx <= Len(s.timerList)
        /\ \E o \in check(e.timer, now) :
              IF o.err # "none"
              THEN /\ sched' = [sched EXCEPT ![k].pc = "crashed"]
                   /\ fired' = NoCode
              ELSE LET s1 == [s EXCEPT !.timerList[s.idx].timer = o.timer]
                   IN  IF Invokes(s, e, o.ret) /\ e.callback = "add"
                       THEN /\ fired' = e.code
                            /\ \E a \in addTimerSetup(CbAddInput, now) :
                                  sched' = [sched EXCEPT ![k] =
                                     [s1 EXCEPT !.pc = "cb_append",
                                                !.centry = NewEntry(a.timer, CbAddInput.callback, timercode)]]
                       ELSE IF Invokes(s, e, o.ret) /\ e.callback \in LockingCallbacks
                       THEN /\ fired' = e.code
                            /\ sched' = [sched EXCEPT ![k] = [s1 EXCEPT !.pc = "cb_acquire"]]
                       ELSE /\ fired' = IF Invokes(s, e, o.ret) THEN e.code ELSE NoCode
                            /\ sched' = [sched EXCEPT ![k] = AfterEntry(s1)]
        /\ UNCHANGED <<timercode, codesReturned>>
        /\ SchedOnly

\* addTimer inside a callback, line 480: the append goes to the object the
\* bot holds now; with self.__timers None the AttributeError leaves __loop
SchedCbAppend(k) ==
    /\ sched[k].pc = "cb_append"
    /\ IF timers = NoSched
       THEN sched' = [sched EXCEPT ![k].pc = "crashed"]
       ELSE sched' = [sched EXCEPT ![timers].timerList = Append(@, sched[k].centry),
                                   ![k].pc = "cb_inc_read"]
    /\ fired' = NoCode
    /\ UNCHANGED <<timercode, codesReturned>>
    /\ SchedOnly

\* addTimer inside a callback, line 482: the load of  self.__timercode += 1
SchedCbIncRead(k) ==
    /\ sched[k].pc = "cb_inc_read"
    /\ sched' = [sched EXCEPT ![k].ctmp = timercode, ![k].pc = "cb_inc_write"]
    /\ fired' = NoCode
    /\ UNCHANGED <<timercode, codesReturned>>
    /\ SchedOnly

\* addTimer inside a callback, lines 482-483: the store and the return; then
\* lines 252-253 of the sweep
SchedCbIncWrite(k) ==
    /\ sched[k].pc = "cb_inc_write"
    /\ timercode' = sched[k].ctmp + 1
    /\ codesReturned' = Append(codesReturned, sched[k].centry.code)
    /\ sched' = [sched EXCEPT ![k] = AfterEntry(sched[k])]
    /\ fired' = NoCode
    /\ SchedOnly

\* a locked operation inside a callback, e.g. line 485: self.__timers is
\* read and acquire(True) is called on its lock
SchedCbAcquire(k) ==
    /\ sched[k].pc = "cb_acquire"
    /\ IF timers = NoSched
       THEN sched' = [sched EXCEPT ![k].pc = "crashed"]
       ELSE sched' = [sched EXCEPT ![k].pc = "cb_wait", ![k].cwait = timers]
    /\ fired' = NoCode
    /\ UNCHANGED <<timercode, codesReturned>>
    /\ SchedOnly

\* acquire(True) returns when the lock is free; the lock has no owner and is
\* not reentrant, so a thread that holds it waits like any other
SchedCbLock(k) ==
    /\ sched[k].pc = "cb_wait"
    /\ sched[sched[k].cwait].lock = "free"
    /\ sched' = [sched EXCEPT ![sched[k].cwait].lock = "callback",
                              ![k].pc = "cb_body", ![k].cwait = NoSched]
    /\ fired' = NoCode
    /\ UNCHANGED <<timercode, codesReturned>>
    /\ SchedOnly

\* the rest of the locked operation, e.g. lines 486-489, on the object
\* self.__timers is then: the body, and release(), which raises
\* RuntimeError on a lock that is not held; then lines 252-253 of the sweep
SchedCbBody(k) ==
    LET s    == sched[k]
        e    == s.timerList[s.idx]
        done == LockedBody(e.callback, sched[timers], e.code)
    IN  /\ s.pc = "cb_body"
        /\ IF timers = NoSched
           THEN sched' = [sched EXCEPT ![k].pc = "crashed"]
           ELSE IF sched[timers].lock = "free"
           THEN sched' = [sched EXCEPT ![timers] = done, ![k].pc = "crashed"]
           ELSE sched' = [sched EXCEPT ![timers] = [done EXCEPT !.lock = "free"],
                                       ![k] = AfterEntry(s)]
        /\ fired' = NoCode
        /\ UNCHANGED <<timercode, codesReturned>>
        /\ SchedOnly

\* lines 254-257: the entries of del_q are removed, the lock is released,
\* time.sleep(1)
SchedSweepEnd(k) ==
    LET s == sched[k]
    IN  /\ s.pc = "sweep"
        /\ s.idx > Len(s.timerList)
        /\ sched' = [sched EXCEPT ![k] =
                        [s EXCEPT !.timerList = RemoveAt(s.timerList, s.del_q, 1),
                                  !.del_q = <<>>, !.idx = 1,
                                  !.lock = "free", !.pc = "test"]]
        /\ fired' = NoCode
        /\ UNCHANGED <<timercode, codesReturned>>
        /\ SchedOnly

----------------------------------------------------------------------------
(* The timer subsystem: the host thread and the scheduler threads           *)

HostStep ==
    \/ HostAddBegin(CoreInputs, FALSE)
    \/ HostAddAppend \/ HostAddIncRead \/ HostAddIncWrite
    \/ HostCallNoTimers
    \/ HostRemoveAcquire \/ HostRemoveBody
    \/ HostPauseAcquire \/ HostPauseBody
    \/ HostResumeAcquire \/ HostResumeBody
    \/ HostInitializeTimers \/ HostStartTimers
    \/ HostKillAcquire \/ HostKillRelease \/ HostKillReacquire

SchedStep(k) ==
    \/ SchedTest(k) \/ SchedAcquire(k) \/ SchedEntry(k)
    \/ SchedCbAppend(k) \/ SchedCbIncRead(k) \/ SchedCbIncWrite(k)
    \/ SchedSweepEnd(k)

Next ==
    \/ Tick
    \/ HostStep
    \/ \E k \in SchedIds : SchedStep(k)

Spec == Init /\ [][Next]_vars

\* The same system with the host making fewer calls.
SpecShort == InitShort /\ [][Next]_vars

(* Callbacks that call a locked operation of the bot on their own timer:   *)
(* the host registers such timers, starts the scheduler and may replace it. *)

CbInputs == {Discrete(0, op, FALSE) : op \in LockingCallbacks}

NextCb ==
    \/ HostAddBegin(CbInputs, FALSE)
    \/ HostAddAppend \/ HostAddIncRead \/ HostAddIncWrite
    \/ HostInitializeTimers \/ HostStartTimers
    \/ \E k \in SchedIds :
          \/ SchedTest(k) \/ SchedAcquire(k) \/ SchedEntry(k)
          \/ SchedCbAcquire(k) \/ SchedCbLock(k) \/ SchedCbBody(k)
          \/ SchedSweepEnd(k)

SpecCb == InitShort /\ [][NextCb]_vars

(* Registration alone: the host thread calls addTimer with every kind of   *)
(* argument list, and the clock advances.                                   *)

NextReg ==
    \/ Tick
    \/ HostAddBegin(AddInputs, TRUE)
    \/ HostAddAppend \/ HostAddIncRead \/ HostAddIncWrite

SpecReg == Init /\ [][NextReg]_vars

----------------------------------------------------------------------------
(* incoming(): the received texts                                           *)

User_a == <<"a">>
User_b == <<"b">>
User_c == <<"c">>

Sp   == <<" ">>
Chan == <<"#", "c">>
CRLF == <<"\r", "\n">>

\* :nick!nick@h
Prefix(u) == <<":">> \o u \o <<"!">> \o u \o <<"@", "h">>

JoinLine(u) == Prefix(u) \o Sp \o Word.JOIN \o Sp \o Chan
PartLine(u) == Prefix(u) \o Sp \o Word.PART \o Sp \o Chan
QuitLine(u) == Prefix(u) \o Sp \o Word.QUIT
ChatLine(u, body) ==
    Prefix(u) \o Sp \o Word.PRIVMSG \o Sp \o Chan \o <<" ", ":">> \o body
ModeLine(modeset, u) ==
    <<":", "j", " ">> \o Word.MODE \o Sp \o Chan \o Sp \o modeset \o Sp \o u
NamesLine(names) ==
    <<":", "h", " ">> \o Word.NAMES \o <<" ", "x", " ", "=", " ">> \o Chan
        \o <<" ", ":">> \o names
PingLine == Word.PING \o <<" ", ":", "h">>
Tagged(tags, line) == <<"@">> \o tags \o Sp \o line

\* the lines of the received texts
Lines ==
    { JoinLine(User_a),
      PartLine(User_a),
      QuitLine(User_b),
      ModeLine(<<"+", "o">>, User_a),
      NamesLine(<<"@", "a", " ", "b", " ", "c">>),
      NamesLine(<<"%", "b", " ", "&", "c", " ">>),
      PingLine,
      Tagged(Key.mod \o <<"=", "1">>, ChatLine(User_a, <<"P", "I", "N", "G", "S">>)) }

Batches == UNION {[1..n -> Lines] : n \in 0..MaxBatchLines}

\* the text of a batch: every line ends with CR LF
RECURSIVE Received(_)
Received(b) == IF b = <<>> THEN <<>> ELSE Head(b) \o CRLF \o Received(Tail(b))

\* the texts __getText() returns
Texts == {Received(b) : b \in Batches}

----------------------------------------------------------------------------
(* incoming()                                                               *)

IrcOnly == UNCHANGED <<timerVars, apiVars>>

\* line 601: text = self.__getText().strip()
GetText ==
    /\ ipc = "idle"
    /\ \E t \in Texts :
         /\ batch' = t
         /\ text' = strip(t)
    /\ ipc' = "ping"
    /\ ires' = "none"
    /\ UNCHANGED <<userlist, modlist, room, lines, message, trace>>
    /\ IrcOnly

\* lines 603-606: the PONG reply, then the for loop begins
PingReply ==
    /\ ipc = "ping"
    /\ trace' = trace \o Pongs(text)
    /\ lines' = split(text, <<"\n">>)
    /\ ipc' = "loop"
    /\ UNCHANGED <<userlist, modlist, room, batch, text, message, ires>>
    /\ IrcOnly

\* the call ends: its locals and its history are gone
CallEnds ==
    /\ ipc' = "idle"
    /\ batch' = <<>>
    /\ text' = <<>>
    /\ lines' = <<>>
    /\ message' = NoMessage
    /\ trace' = <<>>

\* lines 606-637: one pass of the for loop; an exception ends the call
Line ==
    /\ ipc = "loop"
    /\ lines # <<>>
    /\ LET r == LinePass(Bot(userlist, modlist, room), message, Head(lines))
       IN  /\ userlist' = r.bot.userlist
           /\ modlist' = r.bot.modlist
           /\ room' = r.bot.room
           /\ IF r.bot.err = "none"
              THEN /\ message' = r.message
                   /\ lines' = Tail(lines)
                   /\ trace' = Append(trace, "line")
                   /\ UNCHANGED <<ipc, batch, text, ires>>
              ELSE /\ ires' = r.bot.err
                   /\ CallEnds
    /\ IrcOnly

\* line 640: return message
Return ==
    /\ ipc = "loop"
    /\ lines = <<>>
    /\ ires' = "ok"
    /\ CallEnds
    /\ UNCHANGED <<userlist, modlist, room>>
    /\ IrcOnly

NextIrc == GetText \/ PingReply \/ Line \/ Return

SpecIrc == Init /\ [][NextIrc]_vars

----------------------------------------------------------------------------
(* start()                                                                  *)

StartOnly == UNCHANGED <<timerVars, ircVars, parseVars, userVars, tmVars, runVars>>

\* setInfoFromConfig, lines 341-353: one of channel, username, password is set
Configure ==
    /\ spc = "idle"
    /\ \E f \in {"username", "channel", "password"} :
         /\ conf[f] = None
         /\ conf' = [conf EXCEPT ![f] =
                        Some(IF f = "channel" THEN Chan
                             ELSE IF f = "username" THEN User_a
                             ELSE <<"o", "a", "u", "t", "h", ":">>)]
    /\ UNCHANGED <<spc, lookup, netlog, sres, startsLeft>>
    /\ StartOnly

\* line 526: self.server = self.__request_chat_server(self.channel[1:])
StartLookup ==
    /\ spc = "idle"
    /\ startsLeft > 0
    /\ startsLeft' = startsLeft - 1
    /\ IF conf.channel = None
       THEN /\ sres' = "TypeError"
            /\ lookup' = NoLookup
            /\ netlog' = <<>>
            /\ UNCHANGED <<conf, spc>>
       ELSE \E resp \in Responses :
              LET r == request_chat_server(resp)
              IN  /\ lookup' = resp
                  /\ netlog' = <<"GET servers">>
                  /\ IF r.err = "none"
                     THEN /\ conf' = [conf EXCEPT !.server = Some(r.server)]
                          /\ spc' = "connect"
                          /\ sres' = "none"
                     ELSE /\ sres' = r.err
                          /\ UNCHANGED <<conf, spc>>
    /\ StartOnly

\* lines 528-533: the test of the configuration, then the socket connects
\* or fails to
StartConnect ==
    /\ spc = "connect"
    /\ IF conf.username = None \/ conf.channel = None \/ conf.password = None
       THEN /\ sres' = "ValueError"
            /\ spc' = "idle"
            /\ UNCHANGED netlog
       ELSE /\ netlog' = Append(netlog, "connect")
            /\ \E ok \in BOOLEAN :
                 IF ok THEN spc' = "send" /\ sres' = sres
                 ELSE spc' = "idle" /\ sres' = "OSError"
    /\ UNCHANGED <<conf, lookup, startsLeft>>
    /\ StartOnly

\* what start() has sent since the socket connected
Sent == SubSeq(netlog, 3, Len(netlog))

\* lines 534-543: the next send, which succeeds or fails; start() returns
\* after the last
StartSend ==
    /\ spc = "send"
    /\ netlog' = Append(netlog, Handshake[Len(Sent) + 1])
    /\ \E ok \in BOOLEAN :
         IF ~ok THEN spc' = "idle" /\ sres' = "OSError"
         ELSE IF Len(Sent) + 1 = Len(Handshake) THEN spc' = "idle" /\ sres' = "ok"
         ELSE spc' = "send" /\ sres' = sres
    /\ UNCHANGED <<conf, lookup, startsLeft>>
    /\ StartOnly

NextStart == Configure \/ StartLookup \/ StartConnect \/ StartSend

SpecStart == Init /\ [][NextStart]_vars

----------------------------------------------------------------------------
(* The two parsers on their own: _IRCMessage(text) and _IRCTag(raw_text)    *)

\* every text of at most MaxShortLen of these characters
ShortTexts == UNION {[1..n -> {":", "a", " ", "\r"}] : n \in 0..MaxShortLen}

\* prefixes with '!' and '@': nick!user@host and others
Prefixes ==
    { <<"n", "!", "u", "@", "h">>, <<"n", "!", "n", "@", "h">>,
      <<"n", "!", "u", "@", "u">>, <<"n", "n", "!", "u", "@", "h", ".", "t">>,
      <<"n", "@", "h", "!", "u">>, <<"n", "!", "u">>, <<"h", ".", "t">> }

\* lines with a prefix, a command, and parameters or a body or neither
PrefixedTexts ==
    { <<":">> \o pre \o Sp \o cmd \o rest :
        pre \in Prefixes, cmd \in {Word.JOIN, Word.PRIVMSG},
        rest \in { <<>>, <<" ", "#", "c">>, <<" ", "#", "c", " ", ":", "h", "i", " ", "a">>,
                   <<"\r">> } }

MessageTexts == ShortTexts \cup PrefixedTexts

\* the items of a tag text
TagItems ==
    { Key.bits \o <<"=", "5">>, Key.bits \o <<"=", "1", "0">>, Key.bits \o <<"=">>,
      Key.bits \o <<"=", "x">>, Key.bits, Key.slow \o <<"=", "1">>,
      Key.slow \o <<"=">>, Key.mod \o <<"=", "1">>, Key.id \o <<"=", "a", "b">>,
      <<"x", "=", "1">>, <<"x">>, <<>> }

\* the tag texts: no tag at all, or '@' and at most MaxTagItems items
TagTexts ==
    {<<>>} \cup
    { <<"@">> \o strjoin(<<";">>, items) :
        items \in UNION {[1..n -> TagItems] : n \in 1..MaxTagItems} }

ParseOnly ==
    UNCHANGED <<timerVars, ircVars, startVars, userVars, tmVars, runVars>>

\* _IRCMessage(text): one construction, of any of the texts
ParseMessage ==
    /\ pfun = "none"
    /\ \E t \in MessageTexts :
         /\ parg' = t
         /\ pres' = IRCMessage(t)
    /\ pfun' = "_IRCMessage"
    /\ ParseOnly

\* _IRCTag(raw_text): one construction, of any of the tag texts
DecodeTag ==
    /\ pfun = "none"
    /\ \E t \in TagTexts :
         /\ parg' = t
         /\ pres' = IRCTag(t)
    /\ pfun' = "_IRCTag"
    /\ ParseOnly

NextParse == ParseMessage \/ DecodeTag

SpecParse == Init /\ [][NextParse]_vars

----------------------------------------------------------------------------
(* The user variables: declare lines of the configuration, and the calls    *)

VarNames  == { <<"a", "b">>, <<"c", "_", "1">>, <<"x">>, <<"A", "b">>, <<"a", "-">> }
VarValues == { None, Some(0), Some(1) }
VarTypes  == { None, Some("bool"), Some("int") }
TypeWords == { "boolean", "number", "float" }

UserOnly ==
    UNCHANGED <<timerVars, ircVars, startVars, parseVars, tmVars, runVars>>

\* the record of a call: its arguments and its end
Call(op, varname, value, vartype, end) ==
    [op |-> op, varname |-> varname, value |-> value, vartype |-> vartype,
     err |-> end.err, ret |-> end.ret]

\* line.lower() is applied before the tokens are taken
Declare ==
    /\ \E word \in TypeWords, varname \in VarNames :
         LET end == declare(variables, word, lower(varname))
         IN  /\ vop' = Call("declare", lower(varname), None, None, end)
             /\ variables' = end.variables
    /\ UserOnly

GetUserVar ==
    /\ \E varname \in VarNames :
         LET end == getUserVar(variables, varname)
         IN  /\ vop' = Call("getUserVar", varname, None, None, end)
             /\ variables' = end.variables
    /\ UserOnly

SetUserVar ==
    /\ \E varname \in VarNames, value \in VarValues :
         LET end == setUserVar(variables, varname, value)
         IN  /\ vop' = Call("setUserVar", varname, value, None, end)
             /\ variables' = end.variables
    /\ UserOnly

NewUserVar ==
    /\ \E varname \in VarNames, value \in VarValues, vartype \in VarTypes :
         LET end == newUserVar(variables, varname, value, vartype)
         IN  /\ vop' = Call("newUserVar", varname, value, vartype, end)
             /\ variables' = end.variables
    /\ UserOnly

DelUserVar ==
    /\ \E varname \in VarNames :
         LET end == delUserVar(variables, varname)
         IN  /\ vop' = Call("delUserVar", varname, None, None, end)
             /\ variables' = end.variables
    /\ UserOnly

GetUserVarType ==
    /\ \E varname \in VarNames :
         LET end == getUserVarType(variables, varname)
         IN  /\ vop' = Call("getUserVarType", varname, None, None, end)
             /\ variables' = end.variables
    /\ UserOnly

SetUserVarType ==
    /\ \E varname \in VarNames, vartype \in VarTypes :
         LET end == setUserVarType(variables, varname, vartype)
         IN  /\ vop' = Call("setUserVarType", varname, None, vartype, end)
             /\ variables' = end.variables
    /\ UserOnly

NextUser ==
    \/ Declare \/ GetUserVar \/ SetUserVar \/ NewUserVar
    \/ DelUserVar \/ GetUserVarType \/ SetUserVarType

SpecUser == Init /\ [][NextUser]_vars

----------------------------------------------------------------------------
(* One _Timer on its own: set up once, then checked as the clock advances   *)

\* the instants of the clock, in seconds
Instants == {0, 1, 2, 3, 59, 60, 61, 120, 121, 3600, 3601, 7200}

\* the delays of the timers set up
Delays == {0, 1, 2}

TimerOnly ==
    UNCHANGED <<timercode, timers, nSched, sched, hpc, hentry, htmp, harg,
                hcall, hres, codesReturned, removedRet, killedRet, fired,
                callsLeft, ircVars, startVars, parseVars, userVars, runVars>>

\* _Timer(ttype) and setupDiscreteTimer(delay, loop)
TimerSetup ==
    /\ tm = NoTimer
    /\ \E ttype \in TimerTypes, delay \in Delays, loop \in BOOLEAN :
         \E o \in setupDiscreteTimer(NewTimer(ttype).timer, delay, loop, now) :
            tm' = o.timer
    /\ UNCHANGED <<now, tchk>>
    /\ TimerOnly

\* datetime.datetime.now() moves on
TimerClock ==
    /\ \E t \in Instants : t > now /\ now' = t
    /\ UNCHANGED <<tm, tchk>>
    /\ TimerOnly

\* check() of the timer
TimerCheck ==
    /\ tm # NoTimer
    /\ \E o \in check(tm, now) :
         /\ tm' = o.timer
         /\ tchk' = [at |-> now, ret |-> o.ret, before |-> tm.time_d]
    /\ UNCHANGED now
    /\ TimerOnly

NextTimer == TimerSetup \/ TimerClock \/ TimerCheck

SpecTimer == Init /\ [][NextTimer]_vars

----------------------------------------------------------------------------
(* incoming() on MODE messages                                              *)

\* the lines: every sign and kind of letter, a MODE without a target, a JOIN
ModeLines ==
    { ModeLine(<<"+", "o">>, User_a), ModeLine(<<"-", "o">>, User_a),
      ModeLine(<<"+", "v">>, User_a), ModeLine(<<"-", "v">>, User_a),
      ModeLine(<<"+", "h">>, User_b), ModeLine(<<"-", "a">>, User_b),
      ModeLine(<<"o">>, User_b),
      <<":", "j", " ">> \o Word.MODE \o Sp \o Chan \o <<" ", "+", "o">>,
      JoinLine(User_a) }

\* the texts: one line, or a MODE line and one more line
ModeTexts ==
    {Received(<<l>>) : l \in ModeLines}
    \cup {Received(<<ModeLine(<<"+", "a">>, User_b), l>>) : l \in ModeLines}

\* line 601: text = self.__getText().strip()
GetModeText ==
    /\ ipc = "idle"
    /\ \E t \in ModeTexts :
         /\ batch' = t
         /\ text' = strip(t)
    /\ ipc' = "ping"
    /\ ires' = "none"
    /\ UNCHANGED <<userlist, modlist, room, lines, message, trace>>
    /\ IrcOnly

NextMode == GetModeText \/ PingReply \/ Line \/ Return

SpecMode == Init /\ [][NextMode]_vars

----------------------------------------------------------------------------
(* incoming() on ROOMSTATE and NOTICE messages                              *)

RoomstateLine == <<":", "h", " ">> \o Word.ROOMSTATE \o Sp \o Chan
NoticeLine    == <<":", "h", " ">> \o Word.NOTICE \o Sp \o Chan \o <<" ", ":", "x">>

\* the tags of the ROOMSTATE messages: one key, several keys, all four keys
\* as sent on joining, a key the decoder does not know, an empty number
RoomTags ==
    { <<"r", "9", "k", "=", "1">>, <<"r", "9", "k", "=", "0", ";", "s", "u", "b", "s", "-", "o", "n", "l", "y", "=", "1">>, <<"s", "l", "o", "w", "=", "5">>, <<"s", "l", "o", "w", "=", "0", ";", "s", "u", "b", "s", "-", "o", "n", "l", "y", "=", "0">>, <<"b", "r", "o", "a", "d", "c", "a", "s", "t", "e", "r", "-", "l", "a", "n", "g", "=", "e", "n">>, <<"b", "r", "o", "a", "d", "c", "a", "s", "t", "e", "r", "-", "l", "a", "n", "g", "=", ";", "r", "9", "k", "=", "0", ";", "s", "l", "o", "w", "=", "0", ";", "s", "u", "b", "s", "-", "o", "n", "l", "y", "=", "0">>, <<"e", "m", "o", "t", "e", "-", "o", "n", "l", "y", "=", "1">>, <<"r", "9", "k", "=", "1", ";", "s", "l", "o", "w", "=">> }

\* the key under which a NOTICE comes with its identifier, and the key id
MsgIdKey == <<"m", "s", "g", "-", "i", "d">>
NoticeIds == {Notice[f] : f \in DOMAIN Notice}

RoomLines ==
    {Tagged(tags, RoomstateLine) : tags \in RoomTags}
    \cup {RoomstateLine}
    \cup {Tagged(key \o <<"=">> \o id, NoticeLine) :
             key \in {MsgIdKey, Key.id}, id \in NoticeIds}

RoomTexts == {Received(<<l>>) : l \in RoomLines}

\* line 601: text = self.__getText().strip()
GetRoomText ==
    /\ ipc = "idle"
    /\ \E t \in RoomTexts :
         /\ batch' = t
         /\ text' = strip(t)
    /\ ipc' = "ping"
    /\ ires' = "none"
    /\ UNCHANGED <<userlist, modlist, room, lines, message, trace>>
    /\ IrcOnly

NextRoom == GetRoomText \/ PingReply \/ Line \/ Return

SpecRoom == Init /\ [][NextRoom]_vars

----------------------------------------------------------------------------
(* The driver (src/run.py) and the scan thread (src/bitscan.py)            *)
(* The files bit.data and bitconfig.txt are readable and writable; the     *)
(* file display.txt, which is only written, is left out.                   *)

QuitOnly == UNCHANGED <<timerVars, startVars, parseVars, userVars, tmVars>>
CallLocalsUnchanged == UNCHANGED <<ipc, batch, trace, ires>>
RunUnchanged == UNCHANGED <<on, ack, mainpc, chat, bit_info, bitdata, config>>

\* the lines the server sends while the scan thread runs
QuitLines ==
    { Tagged(Key.bits \o <<"=", "1">>, ChatLine(User_a, <<"x">>)),
      Tagged(Key.bits \o <<"=", "2", ";">> \o Key.display_name \o <<"=", "B">>,
             ChatLine(User_b, <<"x">>)),
      PingLine }

QuitTexts == {Received(<<l>>) : l \in QuitLines}

\* the arguments of the passes of the for loop on these texts: the bot as
\* constructed, no earlier message, a line of one of the texts or of the
\* empty text
QuitPasses ==
    LET LinesOf(t) == {split(strip(t), <<"\n">>)[i] : i \in 1..Len(split(strip(t), <<"\n">>))}
    IN  {<<Bot(<<>>, <<>>, NewRoom), NoMessage, l>> :
            l \in {<<>>} \cup UNION {LinesOf(t) : t \in QuitTexts}}

\* LinePass on these arguments, evaluated once
LinePassOn == [a \in QuitPasses |-> LinePass(a[1], a[2], a[3])]

\* bitscan.py lines 91-108: what the loop of scan does with a message
ScanBody(info, msg, override) ==
    LET amount   == msg.tag.bits
        shown    == msg.tag.display_name
        username == IF strip(shown) = <<>> THEN msg.username ELSE shown
        latest   == [user |-> username, amount |-> amount]
        more     == IF override THEN amount >= info.max.amount
                    ELSE amount > info.max.amount
    IN  IF ~msg.tag.isCheer THEN info
        ELSE [latest |-> latest, max |-> IF more THEN latest ELSE info.max]

\* bitscan.py lines 76-77: bit_info and config are read from their files
ScanLoad ==
    /\ scanpc = "start"
    /\ bit_info' = bitdata
    /\ config' \in BOOLEAN
    /\ scanpc' = "test"
    /\ UNCHANGED <<on, ack, mainpc, chat, bitdata>>
    /\ UNCHANGED ircVars
    /\ QuitOnly

\* bitscan.py line 88: while state.on
ScanTest ==
    /\ scanpc = "test"
    /\ scanpc' = IF on THEN "recv" ELSE "exit"
    /\ RunUnchanged
    /\ UNCHANGED ircVars
    /\ QuitOnly

\* bitscan.py line 89, twitchbot.py lines 601 and 564: recv is called; on a
\* closed socket it raises OSError, which nothing in scan catches
ScanRecvCall ==
    /\ scanpc = "recv"
    /\ scanpc' = IF chat = "closed" THEN "crashed" ELSE "blocked"
    /\ RunUnchanged
    /\ UNCHANGED ircVars
    /\ QuitOnly

\* recv returns what the server sent
ScanRecvData ==
    /\ scanpc = "blocked"
    /\ chat = "open"
    /\ \E t \in QuitTexts : text' = strip(t)
    /\ scanpc' = "ping"
    /\ RunUnchanged
    /\ UNCHANGED <<userlist, modlist, room, lines, message>>
    /\ CallLocalsUnchanged
    /\ QuitOnly

\* recv returns the empty text once the socket is shut down
ScanRecvEnd ==
    /\ scanpc = "blocked"
    /\ chat # "open"
    /\ text' = <<>>
    /\ scanpc' = "ping"
    /\ RunUnchanged
    /\ UNCHANGED <<userlist, modlist, room, lines, message>>
    /\ CallLocalsUnchanged
    /\ QuitOnly

\* twitchbot.py lines 603-606: the PONG reply, which raises OSError on a
\* socket that is shut down or closed; then the for loop begins
ScanPing ==
    /\ scanpc = "ping"
    /\ IF Pongs(text) # <<>> /\ chat # "open"
       THEN /\ scanpc' = "crashed"
            /\ UNCHANGED lines
       ELSE /\ scanpc' = "loop"
            /\ lines' = split(text, <<"\n">>)
    /\ RunUnchanged
    /\ UNCHANGED <<userlist, modlist, room, text, message>>
    /\ CallLocalsUnchanged
    /\ QuitOnly

\* twitchbot.py lines 606-637: one pass of the for loop
ScanLine ==
    /\ scanpc = "loop"
    /\ lines # <<>>
    /\ LET r == LinePassOn[<<Bot(userlist, modlist, room), message, Head(lines)>>]
       IN  /\ userlist' = r.bot.userlist
           /\ modlist' = r.bot.modlist
           /\ room' = r.bot.room
           /\ message' = r.message
           /\ IF r.bot.err = "none"
              THEN /\ lines' = Tail(lines)
                   /\ UNCHANGED scanpc
              ELSE /\ scanpc' = "crashed"
                   /\ UNCHANGED lines
    /\ RunUnchanged
    /\ UNCHANGED text
    /\ CallLocalsUnchanged
    /\ QuitOnly

\* twitchbot.py line 640 and bitscan.py lines 91-110: the last message is
\* returned and scan records its bits
ScanReturn ==
    /\ scanpc = "loop"
    /\ lines = <<>>
    /\ bit_info' = ScanBody(bit_info, message, config)
    /\ scanpc' = "test"
    /\ text' = <<>>
    /\ message' = NoMessage
    /\ UNCHANGED <<on, ack, mainpc, chat, bitdata, config>>
    /\ UNCHANGED <<userlist, modlist, room, lines>>
    /\ CallLocalsUnchanged
    /\ QuitOnly

\* bitscan.py lines 112 and 79-83: exit_scan
ScanExit ==
    /\ scanpc = "exit"
    /\ bitdata' = bit_info
    /\ ack' = TRUE
    /\ scanpc' = "done"
    /\ UNCHANGED <<on, mainpc, chat, bit_info, config>>
    /\ UNCHANGED ircVars
    /\ QuitOnly

ScanStep ==
    \/ ScanLoad \/ ScanTest \/ ScanRecvCall \/ ScanRecvEnd
    \/ ScanPing \/ ScanLine \/ ScanReturn \/ ScanExit

\* run.py lines 37-38: the sleep ends and state.on is set to False
MainOff ==
    /\ mainpc = "sleep"
    /\ on' = FALSE
    /\ mainpc' = "send"
    /\ UNCHANGED <<ack, scanpc, chat, bit_info, bitdata, config>>
    /\ UNCHANGED ircVars
    /\ QuitOnly

\* twitchbot.py line 685: QUIT is sent
MainQuitSend ==
    /\ mainpc = "send"
    /\ mainpc' = "connect"
    /\ UNCHANGED <<on, ack, scanpc, chat, bit_info, bitdata, config>>
    /\ UNCHANGED ircVars
    /\ QuitOnly

\* twitchbot.py line 686: a second socket is connected and dropped
MainQuitConnect ==
    /\ mainpc = "connect"
    /\ mainpc' = "shutdown"
    /\ UNCHANGED <<on, ack, scanpc, chat, bit_info, bitdata, config>>
    /\ UNCHANGED ircVars
    /\ QuitOnly

\* twitchbot.py line 687: shutdown(SHUT_RDWR)
MainQuitShutdown ==
    /\ mainpc = "shutdown"
    /\ chat' = "shut"
    /\ mainpc' = "close"
    /\ UNCHANGED <<on, ack, scanpc, bit_info, bitdata, config>>
    /\ UNCHANGED ircVars
    /\ QuitOnly

\* twitchbot.py line 688: close()
MainQuitClose ==
    /\ mainpc = "close"
    /\ chat' = "closed"
    /\ mainpc' = "wait"
    /\ UNCHANGED <<on, ack, scanpc, bit_info, bitdata, config>>
    /\ UNCHANGED ircVars
    /\ QuitOnly

\* run.py line 40: while state.ack is False: None
MainWait ==
    /\ mainpc = "wait"
    /\ ack
    /\ mainpc' = "restart"
    /\ UNCHANGED <<on, ack, scanpc, chat, bit_info, bitdata, config>>
    /\ UNCHANGED ircVars
    /\ QuitOnly

\* run.py lines 42 and 27-35: a new bot is made and started, the flags are
\* set and a new scan thread is started
MainRestart ==
    /\ mainpc = "restart"
    /\ userlist' = <<>>
    /\ modlist' = <<>>
    /\ room' = NewRoom
    /\ chat' = "open"
    /\ on' = TRUE
    /\ ack' = FALSE
    /\ scanpc' = "start"
    /\ mainpc' = "sleep"
    /\ UNCHANGED <<bit_info, bitdata, config>>
    /\ UNCHANGED <<text, lines, message>>
    /\ CallLocalsUnchanged
    /\ QuitOnly

MainStep ==
    \/ MainOff \/ MainQuitSend \/ MainQuitConnect \/ MainQuitShutdown
    \/ MainQuitClose \/ MainWait \/ MainRestart

NextQuit == ScanStep \/ ScanRecvData \/ MainStep

\* both threads keep running; the server need not send anything
SpecQuit ==
    Init /\ [][NextQuit]_vars /\ WF_vars(ScanStep) /\ WF_vars(MainStep)

----------------------------------------------------------------------------
(* Claims about the timer subsystem                                         *)

\* The scheduler thread of object k takes a step.
SchedMoves(k) == sched'[k].pc # sched[k].pc \/ sched'[k].idx # sched[k].idx

\* The host thread is at a statement that reads or writes the timer list.
HostInLockedBody == hpc \in {"rm_body", "pause_body", "resume_body"}

\* C1: every addTimer call that returns, on either thread, returns a code
\* greater than every code returned before it.
C1_CodesStrictlyIncreasing ==
    \A i, j \in 1..Len(codesReturned) :
        i < j => codesReturned[i] < codesReturned[j]

\* C2: a sweep that visits a paused entry does not invoke its callback, and
\* when that entry is due the sweep leaves its timer as it is (active, with
\* the same next-fire instant), so that it fires on the first sweep after
\* resumeTimer.
C2_DueWhilePausedIsKept ==
    [][\A k \in SchedIds :
          LET s == sched[k]
          IN  (/\ s.pc = "sweep" /\ s.idx <= Len(s.timerList) /\ SchedMoves(k)
               /\ s.timerList[s.idx].paused)
              => /\ fired' # s.timerList[s.idx].code
                 /\ (s.timerList[s.idx].timer.active /\ now >= s.timerList[s.idx].timer.time_d)
                       => sched'[k].timerList[s.idx].timer = s.timerList[s.idx].timer]_vars

\* C3: when killTimers has returned, the thread of the scheduler it was
\* called on has terminated (a thread that was never started has nothing to
\* terminate).
C3_TerminatedWhenKillReturns ==
    \A k \in killedRet : sched[k].pc \in {"unstarted", "exited"}

\* C4, as claimed: whenever the host thread is at a statement of addTimer,
\* removeTimer, pauseTimer or resumeTimer that accesses the timer list, no
\* sweep of that list is in progress.
C4_NoAccessDuringSweep ==
    (timers # NoSched /\ (HostInLockedBody \/ hpc = "add_append"))
        => sched[timers].pc \notin SweepPcs

\* C4, amended: removeTimer, pauseTimer and resumeTimer hold the lock while
\* they access the timer list and a sweep holds it from its first entry to
\* its release, so none of their steps falls inside a sweep in progress.
\* (addTimer takes no lock: see C4_NoAccessDuringSweep.)
C4_LockedOpsExcludeSweep ==
    /\ HostInLockedBody => /\ timers # NoSched
                           /\ sched[timers].lock = "host"
                           /\ sched[timers].pc \notin SweepPcs
    /\ \A k \in SchedIds : sched[k].pc \in SweepPcs => sched[k].lock = "sched"

\* C4 witness: removeTimer is inside its locked body while the scheduler
\* thread, which has entries to sweep, waits for the lock.
C4_Witness ==
    /\ hpc = "rm_body"
    /\ timers # NoSched
    /\ sched[timers].pc = "acquire"
    /\ Len(sched[timers].timerList) >= 1

\* C5: no callback of an entry is invoked once removeTimer has returned for
\* its code, and a removeTimer call changes no entry but the one it removes.
C5_RemovedNeverFiresOthersUnaffected ==
    [][/\ fired' # NoCode => fired' \notin removedRet'
       /\ (hpc = "rm_body" /\ hpc' = "idle")
             => Cardinality({i \in 1..Len(sched[timers].timerList) :
                    sched'[timers].timerList[i] # sched[timers].timerList[i]}) <= 1]_vars

\* The argument lists of addTimer with a random range of two integers lo <= hi
IntRange(c) ==
    /\ c.rand
    /\ Len(c.rrange) = 2
    /\ c.rrange[1].kind = "int" /\ c.rrange[2].kind = "int"
    /\ c.rrange[1].v <= c.rrange[2].v

\* C6: after addTimer was called with rand=True and a range of two integers
\* lo <= hi, the timer's next-fire instant is now + d units, lo <= d <= hi.
C6_RangeOffsetWithin ==
    IntRange(hcall) =>
        \E d \in hcall.rrange[1].v..hcall.rrange[2].v :
            hcall.offset = d * UnitSeconds(hcall.ttype)

\* The argument lists of addTimer with a random range of the wrong arity or
\* with a bound that is not a number
BadRange(c) ==
    /\ c.rand
    /\ \/ Len(c.rrange) # 2
       \/ \E i \in 1..Len(c.rrange) : c.rrange[i].kind = "str"

\* C7: an addTimer call with a random range of the wrong arity or with a
\* non-numeric bound ends in that same step with an exception, and leaves
\* the timer lists and the next code to be assigned as they were.
C7_BadRangeRaisesAndChangesNothing ==
    [][(callsLeft' # callsLeft /\ BadRange(hcall'))
          => /\ hres' \in {"ValueError", "TypeError"}
             /\ hpc' = "idle"
             /\ timercode' = timercode
             /\ sched' = sched]_vars

\* C7 witness: the last call failed on a bad range, with an entry registered
\* before it in the list.
C7_Witness ==
    /\ BadRange(hcall)
    /\ hres \in {"ValueError", "TypeError"}
    /\ hpc = "idle"
    /\ Len(sched[1].timerList) >= 1
    /\ timercode >= 1

----------------------------------------------------------------------------
(* Claims about incoming()                                                  *)

\* the names of a list, as a set
Names(list) == {list[i] : i \in 1..Len(list)}

\* a pass of the for loop has just ended with `message` the message of its line
AfterPass == ipc = "loop" /\ trace # <<>> /\ trace[Len(trace)] = "line"

\* C8: once incoming() has processed a PART or a QUIT from user u, u is in
\* neither the user list nor the moderator list, whatever 353, JOIN and MODE
\* messages about u came before.
C8_PartedUserInNeitherList ==
    (AfterPass /\ message.IRCcmd \in {Word.PART, Word.QUIT})
        => /\ message.username \notin Names(userlist)
           /\ message.username \notin Names(modlist)

\* a text whose first line puts a on both lists and whose second line is
\* a's PART has been processed; b and c, whom the first line added, stay
C8_Witness ==
    /\ AfterPass
    /\ lines = <<>>
    /\ batch = Received(<<NamesLine(<<"@", "a", " ", "b", " ", "c">>),
                          PartLine(User_a)>>)
    /\ message.IRCcmd = Word.PART
    /\ message.username = User_a
    /\ {User_b, User_c} \subseteq Names(userlist)

\* the next pass of the for loop takes a 353 reply
NamesReplyNext ==
    /\ ipc = "loop"
    /\ lines # <<>>
    /\ IRCMessage(MsgText(Head(lines))).err = "none"
    /\ IRCMessage(MsgText(Head(lines))).IRCcmd = Word.NAMES

\* the whitespace-separated names of the body of the 353 reply that is next
BodyNames == splitWS(IRCMessage(MsgText(Head(lines))).body)

IsMarked(name) == name[1] \in Markers

Unmarked(name) == IF IsMarked(name) THEN Tail(name) ELSE name

\* C9: a 353 reply adds every whitespace-separated name of its body to the
\* user list, a leading role marker (%, @, &) stripped; the names that had
\* a marker are added to the moderator list as well, and no other name is
\* added to either list.
C9_NamesReplyFillsLists ==
    [][NamesReplyNext =>
        /\ Names(userlist') =
              Names(userlist) \cup {Unmarked(n) : n \in Names(BodyNames)}
        /\ Names(modlist') =
              Names(modlist)
                  \cup {Unmarked(n) : n \in {m \in Names(BodyNames) : IsMarked(m)}}]_vars

\* the reply with body "@a b c" has been applied to empty lists
C9_Witness ==
    /\ AfterPass
    /\ message.IRCcmd = Word.NAMES
    /\ strip(message.body) = <<"@", "a", " ", "b", " ", "c">>
    /\ userlist = <<User_a, User_b, User_c>>
    /\ modlist = <<User_a>>

\* the PONG replies the call in progress has sent
PongsSent == {i \in 1..Len(trace) : trace[i] = "pong"}

TextLines == split(text, <<"\n">>)

\* the passes of the for loop the call in progress has made
PassesMade == Cardinality({i \in 1..Len(trace) : trace[i] = "line"})

\* C11: a call of incoming() on a text of n >= 1 lines ends by returning
\* the message of the last line, after the pass of every one of the n
\* lines has been made, in the order of the lines.
C11_ReturnsLastAfterAllLines ==
    [][(ipc = "loop" /\ ipc' = "idle" /\ text # <<>>) =>
          /\ ires' = "ok"
          /\ PassesMade = Len(TextLines)
          /\ message.err = "none"
          /\ message.message =
                IRCMessage(MsgText(TextLines[Len(TextLines)])).message]_vars

----------------------------------------------------------------------------
(* Claims about start()                                                     *)

\* the order the claim gives for the operations on the chat socket
LifecycleOrder ==
    <<"connect", "PASS", "NICK", "USER", "CAP REQ membership", "CAP REQ tags", "JOIN">>

\* the operations of the last start() call on the chat socket, the lookup
\* of the server left out
SocketLog == SubSeq(netlog, 2, Len(netlog))

\* C12: start() connects the socket, then sends PASS, NICK, USER, CAP REQ
\* for membership, CAP REQ for tags and JOIN, in this order: what it has
\* done on the socket is at every moment a prefix of that sequence (so no
\* send precedes the connect and no receive lies between the sends), and
\* it is the whole sequence when start() returns.
C12_LifecycleInOrder ==
    /\ Len(SocketLog) <= Len(LifecycleOrder)
    /\ \A i \in 1..Len(SocketLog) : SocketLog[i] = LifecycleOrder[i]
    /\ sres = "ok" => SocketLog = LifecycleOrder

\* start() has returned after the connect and the six sends
C12_Witness ==
    /\ spc = "idle"
    /\ sres = "ok"
    /\ Len(netlog) = 8
    /\ netlog[2] = "connect"
    /\ netlog[8] = "JOIN"

\* the host the claim expects of a lookup: the part before ':' of the first
\* server when there is one, the default host otherwise
ExpectedServer(resp) ==
    IF resp.kind = "json" /\ resp.hasServers /\ resp.servers # <<>>
    THEN partition(resp.servers[1], <<":">>)[1]
    ELSE DefaultServer

\* C13: the lookup of the chat server never fails: whatever it meets
\* (network error, no servers field, empty servers list), no exception
\* leaves it and the server is the default host, or the host part of the
\* first entry of a list that is not empty.
C13_LookupNeverFails ==
    lookup # NoLookup =>
        /\ sres \notin {"ConnectionError", "JSONDecodeError"}
        /\ conf.server = Some(ExpectedServer(lookup))

AnyUnset == conf.username = None \/ conf.channel = None \/ conf.password = None

\* C14: start() with username, channel or password unset ends with the
\* ValueError of line 529, and no lookup request, connect or send has been
\* made by then.
C14_UnsetFailsBeforeAnyNetwork ==
    AnyUnset =>
        /\ netlog = <<>>
        /\ sres \in {"none", "ValueError"}
        /\ (startsLeft < MaxStarts /\ spc = "idle") => sres = "ValueError"

----------------------------------------------------------------------------
(* Claims about the parsers                                                 *)

\* the prefix of a text that starts with ':' : its first word
PrefixOf(t) == splitWS(Tail(t))[1]

\* the text is a line whose prefix is nick!user@host, followed by a command
HasFullPrefix(t) ==
    /\ startswith(t, <<":">>)
    /\ Len(splitWS(Tail(t))) >= 2
    /\ LET nick == partition(PrefixOf(t), <<"!">>)
           rest == partition(nick[3], <<"@">>)
       IN  /\ nick[1] # <<>> /\ nick[2] # <<>>
           /\ rest[1] # <<>> /\ rest[2] # <<>> /\ rest[3] # <<>>
           /\ find(nick[1], <<"@">>) = -1
           /\ find(rest[1], <<"!">>) = -1
           /\ find(rest[3], <<"!">>) = -1 /\ find(rest[3], <<"@">>) = -1

\* C15: of a line whose prefix is nick!user@host, the parser sets username
\* to the part before '!', host to the part between '!' and '@', and serv
\* to the part after '@'.
C15_PrefixSplitOnBangAndAt ==
    (pfun = "_IRCMessage" /\ HasFullPrefix(parg)) =>
        LET nick == partition(PrefixOf(parg), <<"!">>)
            rest == partition(nick[3], <<"@">>)
        IN  /\ pres.err = "none"
            /\ pres.username = nick[1]
            /\ pres.host = rest[1]
            /\ pres.serv = rest[3]

\* C16: a line that starts with ':' and has fewer than two whitespace-
\* delimited tokens after the ':' gives the all-default message, and no
\* exception.
C16_ShortLineGivesDefaults ==
    (pfun = "_IRCMessage" /\ startswith(parg, <<":">>)
        /\ Len(splitWS(Tail(parg))) < 2)
    => pres = NoMessage

\* C17: decoding a tag text never raises, whatever its items are.
C17_DecodeNeverRaises ==
    pfun = "_IRCTag" => pres.err = "none"

\* the items bits=value of a tag text, in order
BitsItems(t) ==
    SelectSeq(split(From(t, 1), <<";">>),
              LAMBDA token : /\ partition(token, <<"=">>)[1] = Key.bits
                             /\ partition(token, <<"=">>)[2] # <<>>)

\* C18: of every tag the decoder returns, isCheer is true exactly when the
\* text has an item bits=value, and bits is then the integer of that value;
\* without such an item, and without any tag text, isCheer is false and
\* bits is 0.
C18_CheerIffBits ==
    (pfun = "_IRCTag" /\ pres.err = "none") =>
        LET items == BitsItems(parg)
        IN  IF items = <<>>
            THEN ~pres.isCheer /\ pres.bits = 0
            ELSE /\ pres.isCheer
                 /\ pres.bits = int(partition(items[Len(items)], <<"=">>)[3])

\* a tag with bits=10 and another item has been decoded
C18_Witness ==
    /\ pfun = "_IRCTag"
    /\ pres.err = "none"
    /\ parg = <<"@">> \o Key.mod \o <<"=", "1", ";">> \o Key.bits \o <<"=", "1", "0">>
    /\ pres.isCheer
    /\ pres.bits = 10
    /\ pres.isMod

----------------------------------------------------------------------------
(* Claims about the user variables                                          *)

\* C19: newUserVar(name, v, t) of a valid name that is not declared
\* succeeds, and getUserVar(name) then returns v and getUserVarType(name)
\* returns t; of a name that is declared it raises and leaves the store as
\* it was.
C19_NewThenReadRoundTrips ==
    [][vop'.op = "newUserVar" =>
        IF vop'.varname \in DOMAIN variables
        THEN vop'.err # "none" /\ variables' = variables
        ELSE ValidName(vop'.varname) =>
               /\ vop'.err = "none"
               /\ getUserVar(variables', vop'.varname) =
                      Ends("none", vop'.value, variables')
               /\ getUserVarType(variables', vop'.varname) =
                      Ends("none", vop'.vartype, variables')]_vars

----------------------------------------------------------------------------
(* Claims about the states of one timer                                     *)

\* check() of the entry's timer is due: it is active and its instant is reached
Due(e) == e.timer.active /\ now >= e.timer.time_d

\* the positions of a list whose entries del_q holds
Queued(s) == {s.del_q[j] : j \in 1..Len(s.del_q)}

\* C20: the states of one timer.  A callback is invoked only for an entry
\* whose timer is active; the sweep step that finds a one-shot timer due
\* makes it inactive, an inactive timer is never made active again, every
\* inactive entry the sweep has passed is in del_q, and the end of the sweep
\* removes exactly the entries of del_q: so a one-shot callback is invoked
\* at most once, and its entry is gone at the end of the sweep in which it
\* was due.  The sweep step that finds a looping timer due leaves it active
\* with the instant now + delay (a drawn delay if the timer is random), and
\* the end of the sweep keeps its entry.
C20_TimerStateMachine ==
    [][\A k \in SchedIds :
          LET s  == sched[k]
              s2 == sched'[k]
          IN  /\ (s.pc = "sweep" /\ s.idx <= Len(s.timerList) /\ SchedMoves(k)
                    /\ s2.pc # "crashed") =>
                    LET e  == s.timerList[s.idx]
                        e2 == s2.timerList[s.idx]
                    IN  /\ fired' # NoCode => Due(e)
                        /\ (Due(e) /\ ~e.timer.loop) => ~e2.timer.active
                        /\ (Due(e) /\ e.timer.loop) =>
                              /\ e2.timer.active
                              /\ IF e.timer.random
                                 THEN e2.timer.time_d >= now
                                 ELSE e2.timer.time_d =
                                        now + e.timer.rawDelay * UnitSeconds(e.timer.timerType)
              /\ (s.pc = "sweep" /\ s2.pc = "test") =>
                    /\ s2.timerList = RemoveAt(s.timerList, s.del_q, 1)
                    /\ \A j \in 1..Len(s.timerList) :
                          IF s.timerList[j].timer.active
                          THEN j \notin Queued(s)
                               /\ \E i \in 1..Len(s2.timerList) :
                                     s2.timerList[i] = s.timerList[j]
                          ELSE j \in Queued(s)
              /\ ~(s.pc = "sweep" /\ s2.pc = "test") =>
                    \A j \in 1..Len(s.timerList) :
                        ~s.timerList[j].timer.active =>
                            /\ j <= Len(s2.timerList)
                            /\ ~s2.timerList[j].timer.active
              /\ s2.pc \in SweepPcs =>
                    \A j \in 1..Len(s2.timerList) :
                        (j < s2.idx /\ ~s2.timerList[j].timer.active)
                            => j \in Queued(s2)
      ]_vars

\* in one sweep a one-shot timer has fired and is inactive and queued for
\* removal, and a looping timer has just fired and is set to fire again
C20_Witness ==
    \E k \in SchedIds :
        LET s == sched[k]
        IN  /\ s.pc = "sweep"
            /\ s.idx = 3
            /\ Len(s.timerList) = 2
            /\ ~s.timerList[1].timer.loop
            /\ ~s.timerList[1].timer.active
            /\ s.del_q = <<1>>
            /\ s.timerList[2].timer.loop
            /\ s.timerList[2].timer.active
            /\ s.timerList[2].timer.time_d = now + 1
            /\ fired = s.timerList[2].code
----------------------------------------------------------------------------
(* Claims about one timer                                                   *)

\* C21: after a check at instant t that finds a looping fixed-delay timer
\* due, the timer's next-fire instant is t + delay in the timer's unit,
\* whatever the instant was at which it had been due.
C21_NextFireFromCheckInstant ==
    (tm.loop /\ ~tm.random /\ tchk.ret) =>
        tm.time_d = tchk.at + tm.rawDelay * UnitSeconds(tm.timerType)

\* a looping timer of two minutes has fired at a check made after the
\* instant it was due
C21_Witness ==
    /\ tm.loop
    /\ tm.timerType = "min"
    /\ tm.rawDelay = 2
    /\ tchk.ret
    /\ tchk.before = 120
    /\ tchk.at = 121
    /\ tm.time_d = 241
----------------------------------------------------------------------------
(* Claims about the session state incoming() keeps                          *)

\* no name is in the list twice
NoDuplicates(list) ==
    \A i, j \in 1..Len(list) : i # j => list[i] # list[j]

\* C22: after any sequence of incoming() calls, neither the user list nor
\* the moderator list holds a name more than once.
C22_NoNameTwice ==
    NoDuplicates(userlist) /\ NoDuplicates(modlist)

\* two name lists have been taken in, the second naming users the first had
\* named: three users, all of them moderators
C22_Witness ==
    /\ ipc = "idle"
    /\ Len(userlist) = 3
    /\ Len(modlist) = 3
\* the words of the line the for loop takes next
NextWords == splitWS(Head(lines))

\* the line the for loop takes next is a MODE message with a mode parameter
\* and a target
ModeNext ==
    /\ ipc = "loop"
    /\ lines # <<>>
    /\ Len(NextWords) = 5
    /\ NextWords[2] = Word.MODE

\* the mode parameter has one of the three letters
Elevates(modeset) == \E i \in 1..Len(modeset) : modeset[i] \in {"o", "a", "h"}

\* C23: the pass of a MODE message leaves the user list as it is; with a
\* mode parameter that starts with '+' and has one of o, a, h the moderators
\* after it are those before it and the target; with one that starts with
\* '-' and has one of them, those before it without the target; with any
\* other the moderator list is as it was.
C23_ModeChangesModlistOnly ==
    [][ModeNext =>
         LET modeset == NextWords[4]
             target  == NextWords[5]
         IN  /\ userlist' = userlist
             /\ IF modeset[1] = "+" /\ Elevates(modeset)
                THEN Names(modlist') = Names(modlist) \cup {target}
                ELSE IF modeset[1] = "-" /\ Elevates(modeset)
                THEN Names(modlist') = Names(modlist) \ {target}
                ELSE modlist' = modlist
      ]_vars

\* a user who never joined is a moderator and is not in the user list
C23_Witness ==
    /\ ipc = "idle"
    /\ ires = "ok"
    /\ In(User_b, modlist)
    /\ ~In(User_b, userlist)
    /\ In(User_a, userlist)
\* the tag text of the line the for loop takes next ('' without one), and
\* the command of its message
NextTag == IF Head(Head(lines)) = "@" THEN NextWords[1] ELSE <<>>
NextCmd == IF Head(Head(lines)) = "@" THEN NextWords[3] ELSE NextWords[2]

\* the values of the items key=value of a tag text, in order
KeyValues(t, key) ==
    LET items == SelectSeq(split(From(t, 1), <<";">>),
                           LAMBDA token : /\ partition(token, <<"=">>)[1] = key
                                          /\ partition(token, <<"=">>)[2] # <<>>)
    IN  [i \in 1..Len(items) |-> partition(items[i], <<"=">>)[3]]

HasKey(t, key) == KeyValues(t, key) # <<>>
LastValue(t, key) == KeyValues(t, key)[Len(KeyValues(t, key))]

\* the line the for loop takes next is a ROOMSTATE message
RoomstateNext ==
    /\ ipc = "loop"
    /\ lines # <<>>
    /\ NextCmd = Word.ROOMSTATE

\* C24: the pass of a ROOMSTATE message sets each of broadcaster_lang,
\* r9k_on, subs_on and slow_on whose key is in the tag of the message to the
\* value decoded from the tag, and leaves the fields whose keys are not in
\* the tag, the other room states, the user list and the moderator list as
\* they were.
C24_RoomstateSetsPresentKeys ==
    [][RoomstateNext =>
         LET t == NextTag
         IN  /\ userlist' = userlist
             /\ modlist' = modlist
             /\ room'.broadcaster_lang =
                   IF HasKey(t, Key.broadcaster_lang)
                   THEN LastValue(t, Key.broadcaster_lang)
                   ELSE room.broadcaster_lang
             /\ room'.r9k_on =
                   IF HasKey(t, Key.r9k) THEN LastValue(t, Key.r9k) = <<"1">>
                   ELSE room.r9k_on
             /\ room'.subs_on =
                   IF HasKey(t, Key.subs_only)
                   THEN LastValue(t, Key.subs_only) = <<"1">>
                   ELSE room.subs_on
             /\ IF ~HasKey(t, Key.slow) THEN room'.slow_on = room.slow_on
                ELSE IsInt(LastValue(t, Key.slow)) =>
                        room'.slow_on = (int(LastValue(t, Key.slow)) > 0)
             /\ room'.host_on = room.host_on
             /\ room'.emote_only_on = room.emote_only_on
             /\ room'.msg_channel_suspended = room.msg_channel_suspended
      ]_vars
\* the line the for loop takes next is a NOTICE that comes with an identifier
NoticeNext ==
    /\ ipc = "loop"
    /\ lines # <<>>
    /\ NextCmd = Word.NOTICE
    /\ HasKey(NextTag, MsgIdKey)

\* the room states after a notice with the identifier id
Noticed(rm, id) ==
    CASE id = Notice.subs_on -> [rm EXCEPT !.subs_on = TRUE]
      [] id = Notice.subs_off -> [rm EXCEPT !.subs_on = FALSE]
      [] id = Notice.slow_on -> [rm EXCEPT !.slow_on = TRUE]
      [] id = Notice.slow_off -> [rm EXCEPT !.slow_on = FALSE]
      [] id = Notice.r9k_on -> [rm EXCEPT !.r9k_on = TRUE]
      [] id = Notice.r9k_off -> [rm EXCEPT !.r9k_on = FALSE]
      [] id = Notice.host_on -> [rm EXCEPT !.host_on = TRUE]
      [] id = Notice.host_off -> [rm EXCEPT !.host_on = FALSE]
      [] id = Notice.emote_only_on -> [rm EXCEPT !.emote_only_on = TRUE]
      [] id = Notice.emote_only_off -> [rm EXCEPT !.emote_only_on = FALSE]
      [] id = Notice.msg_channel_suspended ->
             [rm EXCEPT !.msg_channel_suspended = TRUE]
      [] OTHER -> rm

----------------------------------------------------------------------------
(* Claims about callbacks and the end of a scheduler                        *)

\* C27: once killTimers() has returned for a scheduler, no step of that
\* scheduler's thread invokes a callback.
C27_NoCallbackAfterKill ==
    [][\A k \in killedRet : SchedMoves(k) => fired' = NoCode]_vars

\* killTimers() has returned for a started scheduler whose thread is at
\* lock.acquire with a timer due in its list
C27_Witness ==
    \E k \in killedRet :
        /\ sched[k].pc = "acquire"
        /\ sched[k].active
        /\ \E i \in 1..Len(sched[k].timerList) :
              /\ Due(sched[k].timerList[i])
              /\ ~sched[k].timerList[i].paused
\* C26: no scheduler thread waits, inside a sweep, for a lock that it holds
\* itself: a callback that calls removeTimer, pauseTimer, resumeTimer,
\* timerExists, pauseTimers or resumeTimers returns, and the sweep goes on
\* to release the lock.
C26_SweepNeverWaitsForItself ==
    \A k \in SchedIds :
        ~(sched[k].pc = "cb_wait" /\ sched[k].cwait = k /\ sched[k].lock = "sched")
----------------------------------------------------------------------------
(* Claims about the shutdown of the message loop                            *)

\* C28: whenever the driver has set state.on to False, called quitirc and
\* waits for state.ack, the scan thread eventually leaves its loop and sets
\* state.ack to True.
C28_ShutdownReachesAck == (mainpc = "wait") ~> ack

====
